---- MODULE Spec2Model ----
(***************************************************************************)
(* Background task runner of nanobot (nanobot/agent/background.py):        *)
(* the TaskRegistry (one JSON file per task), _event_to_activity and the   *)
(* coroutine run_background_task, under asyncio's cooperative scheduling.  *)
(*                                                                         *)
(* Text is modelled as a sequence of tokens (a token is a TLA+ string);    *)
(* concatenation, prefixes and slices are the sequence operations.  The    *)
(* literals of the source that hold non-ASCII glyphs are written with an   *)
(* ASCII stand-in:  "[X]" the cross mark, "[OK]" the check mark,           *)
(* "[STOP]" the stop sign, "[WAIT]" the hourglass, "..." the ellipsis,     *)
(* "'" the backquote.                                                      *)
(***************************************************************************)
EXTENDS Integers, Sequences, FiniteSets, TLC

(* ------------------------------ bounds -------------------------------- *)
\* events one run may receive from its stream
MaxEvents == 2
\* latest monotonic-clock reading at which an event may arrive
MaxNow == 123

(* --------------------------- program constants ------------------------ *)
STATUS_INTERVAL_S == 60
PreviewLen == 100
ToolValLen == 300
TextLen == 500

(* ------------------------------- text --------------------------------- *)
Take(s, n) == SubSeq(s, 1, IF n < Len(s) THEN n ELSE Len(s))

IsPrefix(p, s) == Len(p) <= Len(s) /\ SubSeq(s, 1, Len(p)) = p

Contains(s, x) ==
    \E i \in 0..(Len(s) - Len(x)) : SubSeq(s, i + 1, i + Len(x)) = x

RECURSIVE LStrip(_)
LStrip(s) == IF s # <<>> /\ Head(s) = " " THEN LStrip(Tail(s)) ELSE s

RECURSIVE RStrip(_)
RStrip(s) ==
    IF s # <<>> /\ s[Len(s)] = " " THEN RStrip(SubSeq(s, 1, Len(s) - 1)) ELSE s

\* str.strip()
Strip(s) == RStrip(LStrip(s))

ErrMark == <<"[X]">>
CancelNotice == <<"[STOP]", " Task cancelled.">>
Completed == <<"[OK]", " Task completed.">>
Starting == <<"starting", "...">>
\* FailedMsg without the exception's text
FailedMsg_bare(e) == ErrMark \o <<" Task failed">>
FailedMsg(e) == ErrMark \o <<" Task failed: ">> \o e

(* --------------------------- TaskRecord / files ----------------------- *)
Ids == {"t1", "t2"}
\* the requests the dispatcher hands over: destination, prompt, and the
\* reply_to token of the inbound message. reply_to is None or a str:
\* <<>> stands for None and <<t>> for the text t (<<<<>>>>: the empty string)
Request(channel, chat_id, prompt, reply_to) ==
    [channel |-> channel, chat_id |-> chat_id, prompt |-> prompt, reply_to |-> reply_to]
Requests == {Request("discord", "c1", <<"do", " ", "it">>, <<>>),
             Request("telegram", "42", <<"task">>, <<<<"msg999">>>>)}
\* a request whose reply_to token is the empty string
EmptyTokenRequest == Request("telegram", "42", <<"task">>, <<<<>>>>)

Terminal == {"done", "error", "cancelled"}

\* TaskRecord(...) as built by create: status and last_activity take the defaults
TaskRecord(id, channel, chat_id, prompt_preview, started_at) ==
    [id |-> id, channel |-> channel, chat_id |-> chat_id,
     prompt_preview |-> prompt_preview, started_at |-> started_at,
     status |-> "running", last_activity |-> <<>>]

\* the seven fields of a TaskRecord, and those the dataclass gives a default
Fields == {"id", "channel", "chat_id", "prompt_preview", "started_at",
           "status", "last_activity"}
Defaulted == {"status", "last_activity"}

\* a path of task_dir: absent, or a file. json tells what json.loads makes
\* of the text: "object" (a dict), "other" (a list, a string, a number,
\* null) or "invalid" (JSONDecodeError: garbage, an empty or truncated
\* text). For an object, data holds the values of the known keys, missing
\* the known keys that are absent (their place in data holds the blank
\* value), and extra tells whether there are keys beyond the known ones.
\* stat tells what os.stat makes of the path: "ok" (it answers, a missing
\* file included) or "fails" with an OSError that Path.exists() does not
\* take for "no such file" (EACCES for a path whose directory cannot be
\* searched, ENAMETOOLONG).
NoFile == [exists |-> FALSE, stat |-> "ok", json |-> "object", missing |-> {},
           extra |-> FALSE, data |-> TaskRecord("", "", "", <<>>, 0)]
File(rec) == [exists |-> TRUE, stat |-> "ok", json |-> "object", missing |-> {},
              extra |-> FALSE, data |-> rec]

(* ------------------------------ TaskRegistry -------------------------- *)
\* sorted(self.task_dir.glob("*.json")): the paths in lexical order
SortedIds == <<"t1", "t2">>

\* _save: write the record's file, whatever was there
save(dir, record) == [dir EXCEPT ![record.id] = File(record)]

\* path.exists() raises: the call is outside the try of update_activity
\* and of finish
exists_raises(f) == f.stat = "fails"

\* json.loads(path.read_text()) gives a dict
loads_dict(f) == f.exists /\ f.stat = "ok" /\ f.json = "object"

\* data.get("status") of a loaded dict
get_status(f) == IF "status" \in f.missing THEN "None" ELSE f.data.status

\* TaskRecord(**data) does not raise TypeError: no unexpected keyword, and
\* every field without a default is given
record_of_data(f) == ~f.extra /\ f.missing \subseteq Defaulted

\* update_activity that looks at the status first: only a running record
\* is rewritten
update_activity_running(dir, task_id, activity) ==
    IF loads_dict(dir[task_id]) /\ get_status(dir[task_id]) = "running"
    THEN [dir EXCEPT ![task_id].data.last_activity = activity,
                     ![task_id].missing = @ \ {"last_activity"}]
    ELSE dir

\* update_activity that writes the record without its prompt preview
update_activity_short(dir, task_id, activity) ==
    IF loads_dict(dir[task_id])
    THEN [dir EXCEPT ![task_id].data.last_activity = activity,
                     ![task_id].data.prompt_preview = <<>>,
                     ![task_id].missing = @ \ {"last_activity"}]
    ELSE dir

\* update_activity: set last_activity and rewrite the file when it exists
\* and loads as a dict; any exception (not JSON, not a dict) is swallowed
update_activity(dir, task_id, activity) ==
    IF loads_dict(dir[task_id])
    THEN [dir EXCEPT ![task_id].data.last_activity = activity,
                     ![task_id].missing = @ \ {"last_activity"}]
    ELSE dir

\* finish without the write
finish_noop(dir, task_id, status) == dir

\* finish that rewrites every record file of the directory
finish_every(dir, task_id, status) ==
    [id \in DOMAIN dir |->
        IF loads_dict(dir[id])
        THEN [dir[id] EXCEPT !.data.status = status, !.missing = @ \ {"status"}]
        ELSE dir[id]]

\* finish: set status and rewrite the file when it exists and loads as a
\* dict; any exception is swallowed
finish(dir, task_id, status) ==
    IF loads_dict(dir[task_id])
    THEN [dir EXCEPT ![task_id].data.status = status,
                     ![task_id].missing = @ \ {"status"}]
    ELSE dir

\* drain_from without the test for "running": every record is collected and
\* marked stale
RECURSIVE drain_from_all(_, _)
drain_from_all(i, acc) ==
    IF i > Len(SortedIds) THEN acc
    ELSE LET id == SortedIds[i]
             f == acc.dir[id]
         IN  IF f.exists
             THEN drain_from_all(i + 1,
                    [stale |-> Append(acc.stale, f.data),
                     dir |-> [acc.dir EXCEPT ![id].data.status = "stale"]])
             ELSE drain_from_all(i + 1, acc)

\* drain_from that collects the running records and leaves them running
RECURSIVE drain_from_keep(_, _)
drain_from_keep(i, acc) ==
    IF i > Len(SortedIds) THEN acc
    ELSE LET id == SortedIds[i]
             f == acc.dir[id]
         IN  IF loads_dict(f) /\ get_status(f) = "running" /\ record_of_data(f)
             THEN drain_from_keep(i + 1,
                    [stale |-> Append(acc.stale, f.data), dir |-> acc.dir])
             ELSE drain_from_keep(i + 1, acc)

\* drain_stale: the loop over the sorted paths, from path number i on;
\* acc = [stale |-> records collected so far, dir |-> directory so far].
\* A file that does not load as a dict, or whose dict TaskRecord(**data)
\* refuses, raises inside the try: it is skipped as it is (the append and
\* the rewrite come after the raising call).
RECURSIVE drain_from(_, _)
drain_from(i, acc) ==
    IF i > Len(SortedIds) THEN acc
    ELSE LET id == SortedIds[i]
             f == acc.dir[id]
         IN  IF loads_dict(f) /\ get_status(f) = "running" /\ record_of_data(f)
             THEN drain_from(i + 1,
                    [stale |-> Append(acc.stale, f.data),
                     dir |-> [acc.dir EXCEPT ![id].data.status = "stale"]])
             ELSE drain_from(i + 1, acc)

drain_stale(dir) == drain_from(1, [stale |-> <<>>, dir |-> dir])

(* ------------------------------- events ------------------------------- *)
\* a JSON value of a tool's input object or of an event's key: a string,
\* an integer, true or false, or null (also what .get gives for no key)
JStr(t) == [kind |-> "str", text |-> t, num |-> 0]
JNum(n) == [kind |-> "int", text |-> <<>>, num |-> n]
JBool(b) == [kind |-> "bool", text |-> <<>>, num |-> IF b THEN 1 ELSE 0]
JNull == [kind |-> "null", text |-> <<>>, num |-> 0]

\* the truth value of v, as `if v` takes it
is_truthy(v) ==
    CASE v.kind = "str" -> v.text # <<>>
      [] v.kind = "int" -> v.num # 0
      [] v.kind = "bool" -> v.num = 1
      [] OTHER -> FALSE

\* str(v)
str(v) ==
    CASE v.kind = "str" -> v.text
      [] v.kind = "int" -> <<ToString(v.num)>>
      [] v.kind = "bool" -> IF v.num = 1 THEN <<"True">> ELSE <<"False">>
      [] OTHER -> <<"None">>

\* a content block: a dict with type / name / input values / text, or not a dict
Block(type, has_name, name, input, text) ==
    [isdict |-> TRUE, type |-> type, has_name |-> has_name, name |-> name,
     input |-> input, text |-> text]
NotDictBlock == [isdict |-> FALSE, type |-> "", has_name |-> FALSE, name |-> <<>>,
                 input |-> <<>>, text |-> <<>>]

\* a stream event: a dict with type / message.content / result / is_error /
\* subtype (an absent or None field is the empty value), or a value that is
\* not a dict
Event(type, content, result, is_error, subtype) ==
    [isdict |-> TRUE, type |-> type, content |-> content, result |-> result,
     is_error |-> is_error, subtype |-> subtype]
EvNotDict == [isdict |-> FALSE, type |-> "", content |-> <<>>, result |-> <<>>,
              is_error |-> FALSE, subtype |-> ""]

EvTool == Event("assistant",
                <<Block("tool_use", TRUE, <<"bash">>, <<JStr(<<>>), JStr(<<"ls">>)>>, <<>>)>>,
                <<>>, FALSE, "")
EvText == Event("assistant",
                <<NotDictBlock, Block("text", FALSE, <<>>, <<>>, <<" ", "hi", " ">>)>>,
                <<>>, FALSE, "")
EvSystem == Event("system", <<>>, <<>>, FALSE, "")
EvResultOk == Event("result", <<>>, <<"All done!">>, FALSE, "success")
EvResultErr == Event("result", <<>>, <<"X">>, TRUE, "success")
EvResultSub == Event("result", <<>>, <<"X">>, FALSE, "error_during_execution")
EvResultEmptyErr == Event("result", <<>>, <<>>, TRUE, "")

Events == {EvTool, EvText, EvSystem, EvResultOk, EvResultErr, EvResultSub,
           EvResultEmptyErr, EvNotDict}

\* first_truthy that takes the first value, truthy or not
first_value(vals) ==
    IF vals = <<>> THEN <<>> ELSE Take(str(Head(vals)), ToolValLen)

\* next((str(v)[:300] for v in inp.values() if v), "")
RECURSIVE first_truthy(_)
first_truthy(vals) ==
    IF vals = <<>> THEN <<>>
    ELSE IF is_truthy(Head(vals)) THEN Take(str(Head(vals)), ToolValLen)
    ELSE first_truthy(Tail(vals))

\* text_label cutting at 80 characters
text_label_80(text) == Take(text, 80) \o (IF Len(text) > 80 THEN <<"...">> ELSE <<>>)

\* text_label that always ends with the ellipsis
text_label_marked(text) == Take(text, TextLen) \o <<"...">>

\* text[:500] + ("..." if len(text) > 500 else "")
text_label(text) ==
    Take(text, TextLen) \o (IF Len(text) > TextLen THEN <<"...">> ELSE <<>>)

\* the loop over the content blocks; <<>> stands for None
RECURSIVE activity_of_blocks(_)
activity_of_blocks(blocks) ==
    IF blocks = <<>> THEN <<>>
    ELSE LET block == Head(blocks) IN
         IF ~block.isdict THEN activity_of_blocks(Tail(blocks))
         ELSE IF block.type = "tool_use"
         THEN LET name == IF block.has_name THEN block.name ELSE <<"tool">>
                  val == first_truthy(block.input)
              IN  IF val # <<>> THEN name \o <<"(\"">> \o val \o <<"\")">>
                  ELSE name
         ELSE IF block.type = "text" /\ Strip(block.text) # <<>>
         THEN text_label(Strip(block.text))
         ELSE activity_of_blocks(Tail(blocks))

\* _event_to_activity on a dict event (on another value event.get raises)
event_to_activity(event) ==
    IF event.type # "assistant" THEN <<>> ELSE activity_of_blocks(event.content)

(* ------------------------------- state -------------------------------- *)
VARIABLES
    task_dir,    \* TaskRegistry.task_dir: id -> the file <id>.json
    frame,       \* id -> the frame of run_background_task(task_id = id)
    published,   \* id -> the OutboundMessages that run has published on the bus
    stale,       \* what the latest drain_stale returned
    obs,         \* id -> history of the run, for stating properties only
    called,      \* the latest direct call of a TaskRegistry method
    gen,         \* the frame of one run_task_streaming generator
    proc,        \* the subprocess it launched
    stderr_task, \* the task running _drain_stderr, and stderr_lines
    clock,       \* asyncio.get_event_loop().time(), in seconds
    yielded,     \* the events the generator has yielded, in order
    labelled     \* one call of _event_to_activity: its event, and the label

vars == <<task_dir, frame, published, stale, obs, called,
          gen, proc, stderr_task, clock, yielded, labelled>>
\* the streaming client's state
stream_vars == <<gen, proc, stderr_task, clock, yielded>>
\* the registry's and the runs' state
task_vars == <<task_dir, frame, published, stale, obs, called, labelled>>
\* what run_background_task and the supervisor never touch
others == <<called, stream_vars, labelled>>

\* the monotonic clock when a run starts, and how much later an event comes
StartTime == 3
Deltas == {0, 60}
\* str(e) of the exceptions the stream, the event access and the bus raise
StreamError == <<"subprocess exploded">>
EventError == <<"'list' object has no attribute 'get'">>
BusError == <<"bus closed">>

Ended == {"returned", "cancelled", "raised", "dead"}
AtPost == {"post_progress", "post_cancelled", "post_failed", "post_final"}

IdleFrame ==
    [pc |-> "idle", channel |-> "", chat_id |-> "", reply_to |-> <<>>,
     started |-> 0, last_status_at |-> 0, now |-> 0, last_activity |-> <<>>,
     result_text |-> <<>>, is_error |-> FALSE, exc |-> <<>>]

NoObs ==
    [finishes |-> <<>>, faults |-> <<>>, nevents |-> 0,
     has_result |-> FALSE, last_result |-> EvSystem]

Fault(kind, at) == [kind |-> kind, at |-> at]

\* a direct call of a registry method: its name and the task id it was
\* given (create: the id it drew; drain_stale: none), the status or
\* activity passed (create: channel, chat_id and then the prompt), and
\* whether the call raised. For drain_stale: again
\* tells that the call before was drain_stale too, and first is what that
\* call returned.
Call(op, id, arg) ==
    [op |-> op, id |-> id, arg |-> arg, raised |-> FALSE,
     again |-> FALSE, first |-> <<>>]
NoCall == Call("none", "", <<>>)

\* no generator, no subprocess, no drain task
NoGen ==
    [pc |-> "off", stream_timeout |-> 0, deadline |-> 0,
     timed_out |-> FALSE, got_result_event |-> FALSE,
     pending |-> "", exc |-> "",
     timed_out_at |-> 0, nlines |-> 0, lines |-> <<>>, cancelled |-> FALSE]
\* errpipe, writing and errout belong to the stderr pipe (see SpecPipes):
\* the lines written and not yet read, whether the process is inside a
\* write that found the pipe full, and the lines the pipe has taken so
\* far; outfull tells that the stdout pipe holds more unread output than
\* the StreamReader buffers
NoProc ==
    [state |-> "none", returncode |-> 0, report |-> 0, stdout |-> "closed",
     plan |-> 0, own |-> FALSE, killed |-> FALSE, sigkilled |-> FALSE,
     waited |-> FALSE, errpipe |-> <<>>, writing |-> FALSE, errout |-> <<>>,
     outfull |-> FALSE]
NoTask == [state |-> "none", lines |-> <<>>, nread |-> 0]
\* no call of _event_to_activity on its own
NoLabelled == [event |-> EvSystem, done |-> FALSE, label |-> <<>>]
StreamOff ==
    /\ labelled = NoLabelled
    /\ gen = NoGen
    /\ proc = NoProc
    /\ stderr_task = NoTask
    /\ clock = 0
    /\ yielded = <<>>

Init ==
    /\ StreamOff
    /\ task_dir = [id \in Ids |-> NoFile]
    /\ frame = [id \in Ids |-> IdleFrame]
    /\ published = [id \in Ids |-> <<>>]
    /\ stale = <<>>
    /\ obs = [id \in Ids |-> NoObs]
    /\ called = NoCall

(* ---------------------------- outbound text --------------------------- *)
\* elapsed_str in seconds, whatever their number
elapsed_str_secs(elapsed_s) == <<ToString(elapsed_s), "s">>

\* f"{mins}m {secs}s" if mins else f"{secs}s", of int(now - started)
elapsed_str(elapsed_s) ==
    LET mins == elapsed_s \div 60
        secs == elapsed_s % 60
    IN  IF mins # 0 THEN <<ToString(mins), "m ", ToString(secs), "s">>
        ELSE <<ToString(secs), "s">>

progress_text(f) ==
    <<"[WAIT]", " Still working", "...", " (">> \o elapsed_str(f.now - f.started)
        \o <<" elapsed)", "\n", "'">> \o f.last_activity \o <<"'">>

\* final_text with the prefix whatever the error flag
final_text_prefixed(f) ==
    IF f.result_text # <<>> THEN ErrMark \o <<" ">> \o f.result_text ELSE Completed

\* final_text without the prefix
final_text_plain(f) == IF f.result_text # <<>> THEN f.result_text ELSE Completed

final_text(f) ==
    IF f.result_text # <<>>
    THEN (IF f.is_error THEN ErrMark \o <<" ">> ELSE <<>>) \o f.result_text
    ELSE Completed

\* the content the run is publishing at its current await post(...)
content_at(f) ==
    CASE f.pc = "post_progress" -> progress_text(f)
      [] f.pc = "post_cancelled" -> CancelNotice
      [] f.pc = "post_failed" -> FailedMsg(f.exc)
      [] OTHER -> final_text(f)

\* `if reply_to:` of a str or None
truthy(reply_to) == reply_to # <<>> /\ reply_to[1] # <<>>

\* the OutboundMessage with metadata left empty
OutboundMessage_nometa(f, content) ==
    [channel |-> f.channel, chat_id |-> f.chat_id, content |-> content,
     has_reply_to |-> FALSE, reply_to |-> <<>>]

\* post(): the OutboundMessage built from the run's arguments; has_reply_to
\* tells whether metadata has the key reply_to, reply_to is its value
OutboundMessage(f, content) ==
    [channel |-> f.channel, chat_id |-> f.chat_id, content |-> content,
     has_reply_to |-> truthy(f.reply_to),
     reply_to |-> IF truthy(f.reply_to) THEN f.reply_to[1] ELSE <<>>]

(* ------------------------------ handlers ------------------------------ *)
\* on_cancelled without the finish call
on_cancelled_nofinish(id, fault) ==
    /\ task_dir' = task_dir
    /\ frame' = [frame EXCEPT ![id].pc = "post_cancelled"]
    /\ obs' = [obs EXCEPT ![id].faults = Append(@, fault)]

\* on_cancelled recording the run as failed
on_cancelled_error(id, fault) ==
    /\ task_dir' = finish(task_dir, id, "error")
    /\ frame' = [frame EXCEPT ![id].pc = "post_cancelled"]
    /\ obs' = [obs EXCEPT ![id].finishes = Append(@, "error"),
                          ![id].faults = Append(@, fault)]

\* except asyncio.CancelledError: finish, then await post(notice)
on_cancelled(id, fault) ==
    /\ task_dir' = finish(task_dir, id, "cancelled")
    /\ frame' = [frame EXCEPT ![id].pc = "post_cancelled"]
    /\ obs' = [obs EXCEPT ![id].finishes = Append(@, "cancelled"),
                          ![id].faults = Append(@, fault)]

\* except Exception as e: finish, then await post(failure text)
on_exception(id, e, fault) ==
    /\ task_dir' = finish(task_dir, id, "error")
    /\ frame' = [frame EXCEPT ![id].pc = "post_failed", ![id].exc = e]
    /\ obs' = [obs EXCEPT ![id].finishes = Append(@, "error"),
                          ![id].faults = Append(@, fault)]

(* --------------------------- TaskRegistry.create ---------------------- *)
\* create, when uuid4 draws an id no file has: a record with that id and
\* the defaults, saved; the wall clock is read as the number of records
\* created before
create(channel, chat_id, prompt) ==
    \E id \in Ids :
        /\ ~task_dir[id].exists
        /\ frame[id].pc = "idle"
        /\ task_dir' = save(task_dir,
                            TaskRecord(id, channel, chat_id, Take(prompt, PreviewLen),
                                       Cardinality({i \in Ids : task_dir[i].exists})))
        /\ UNCHANGED <<frame, published, stale, obs>>
        /\ UNCHANGED others

(* --------------------------- run_background_task ---------------------- *)
\* the call, up to the first wait for an event: the dispatcher passes the
\* id of the record it created for the request, the request's destination
\* and its reply_to token
start(id, req) ==
    /\ frame[id].pc = "idle"
    /\ task_dir[id].exists
    /\ task_dir[id].data.status = "running"
    /\ task_dir[id].data.channel = req.channel
    /\ task_dir[id].data.chat_id = req.chat_id
    /\ frame' = [frame EXCEPT ![id] =
                    [pc |-> "next_event",
                     channel |-> req.channel,
                     chat_id |-> req.chat_id,
                     reply_to |-> req.reply_to,
                     started |-> StartTime, last_status_at |-> StartTime,
                     now |-> StartTime, last_activity |-> Starting,
                     result_text |-> <<>>, is_error |-> FALSE, exc |-> <<>>]]
    /\ UNCHANGED <<task_dir, published, stale, obs>>
    /\ UNCHANGED others

\* is_error of a result event
error_flag(event) == event.is_error \/ event.subtype = "error_during_execution"

\* loop_body without the registry.update_activity call
loop_body_nostore(id, event, now) ==
    LET f == frame[id]
        activity == event_to_activity(event)
        is_result == event.type = "result"
        due == now - f.last_status_at >= STATUS_INTERVAL_S
    IN  /\ task_dir' = task_dir
        /\ frame' = [frame EXCEPT
                ![id].now = now,
                ![id].last_activity = IF activity # <<>> THEN activity ELSE @,
                ![id].result_text = IF is_result THEN event.result ELSE @,
                ![id].is_error = IF is_result THEN error_flag(event) ELSE @,
                ![id].pc = IF due THEN "post_progress" ELSE "next_event"]
        /\ obs' = [obs EXCEPT
                ![id].nevents = @ + 1,
                ![id].has_result = @ \/ is_result,
                ![id].last_result = IF is_result THEN event ELSE @]

\* loop_body that keeps the text and the flag of the first result event
loop_body_first(id, event, now) ==
    LET f == frame[id]
        activity == event_to_activity(event)
        is_result == event.type = "result" /\ ~obs[id].has_result
        due == now - f.last_status_at >= STATUS_INTERVAL_S
    IN  /\ task_dir' = IF activity # <<>>
                       THEN update_activity(task_dir, id, activity)
                       ELSE task_dir
        /\ frame' = [frame EXCEPT
                ![id].now = now,
                ![id].last_activity = IF activity # <<>> THEN activity ELSE @,
                ![id].result_text = IF is_result THEN event.result ELSE @,
                ![id].is_error = IF is_result THEN error_flag(event) ELSE @,
                ![id].pc = IF due THEN "post_progress" ELSE "next_event"]
        /\ obs' = [obs EXCEPT
                ![id].nevents = @ + 1,
                ![id].has_result = @ \/ event.type = "result",
                ![id].last_result = IF event.type = "result" THEN event ELSE @]

\* one iteration of the loop body on a dict event, up to the next wait
loop_body(id, event, now) ==
    LET f == frame[id]
        activity == event_to_activity(event)
        is_result == event.type = "result"
        due == now - f.last_status_at >= STATUS_INTERVAL_S
    IN  /\ task_dir' = IF activity # <<>>
                       THEN update_activity(task_dir, id, activity)
                       ELSE task_dir
        /\ frame' = [frame EXCEPT
                ![id].now = now,
                ![id].last_activity = IF activity # <<>> THEN activity ELSE @,
                ![id].result_text = IF is_result THEN event.result ELSE @,
                ![id].is_error = IF is_result THEN error_flag(event) ELSE @,
                ![id].pc = IF due THEN "post_progress" ELSE "next_event"]
        /\ obs' = [obs EXCEPT
                ![id].nevents = @ + 1,
                ![id].has_result = @ \/ is_result,
                ![id].last_result = IF is_result THEN event ELSE @]

\* the stream yields an event dt seconds after the previous one
on_event(id, event, dt) ==
    /\ frame[id].pc = "next_event"
    /\ obs[id].nevents < MaxEvents
    /\ frame[id].now + dt <= MaxNow
    /\ IF event.isdict
       THEN loop_body(id, event, frame[id].now + dt)
       ELSE on_exception(id, EventError, Fault("bad_event", "next_event"))
    /\ UNCHANGED <<published, stale>>
    /\ UNCHANGED others

\* the stream raises an exception
stream_raises(id) ==
    /\ frame[id].pc = "next_event"
    /\ on_exception(id, StreamError, Fault("stream_error", "next_event"))
    /\ UNCHANGED <<published, stale>>
    /\ UNCHANGED others

\* final_status that records every exhausted stream as done
final_status_done(f) == "done"

\* final_status taking a run without result text for a failed one
final_status_strict(f) == IF f.is_error \/ f.result_text = <<>> THEN "error" ELSE "done"

\* the status written after the loop
final_status(f) == IF f.is_error THEN "error" ELSE "done"

\* the stream is exhausted: the final finish, then await post(final text)
stream_ends(id) ==
    /\ frame[id].pc = "next_event"
    /\ task_dir' = finish(task_dir, id, final_status(frame[id]))
    /\ frame' = [frame EXCEPT ![id].pc = "post_final"]
    /\ obs' = [obs EXCEPT ![id].finishes = Append(@, final_status(frame[id]))]
    /\ UNCHANGED <<published, stale>>
    /\ UNCHANGED others

\* bus.publish_outbound(msg) having taken the message
publish(id) ==
    published' = [published EXCEPT
                    ![id] = Append(@, OutboundMessage(frame[id], content_at(frame[id])))]

\* after_post without the reset of the interval timer
after_post_keep(f) ==
    CASE f.pc = "post_progress" -> [f EXCEPT !.pc = "next_event"]
      [] f.pc = "post_cancelled" -> [f EXCEPT !.pc = "cancelled"]
      [] OTHER -> [f EXCEPT !.pc = "returned"]

\* after_post without the raise that ends the cancellation handler
after_post_swallow(f) ==
    CASE f.pc = "post_progress" -> [f EXCEPT !.last_status_at = f.now, !.pc = "next_event"]
      [] OTHER -> [f EXCEPT !.pc = "returned"]

\* where the run goes when an await post(...) returns
after_post(f) ==
    CASE f.pc = "post_progress" -> [f EXCEPT !.last_status_at = f.now, !.pc = "next_event"]
      [] f.pc = "post_cancelled" -> [f EXCEPT !.pc = "cancelled"]
      [] OTHER -> [f EXCEPT !.pc = "returned"]

\* await post(...) returns
post_returns(id) ==
    /\ frame[id].pc \in AtPost
    /\ publish(id)
    /\ frame' = [frame EXCEPT ![id] = after_post(@)]
    /\ UNCHANGED <<task_dir, stale, obs>>
    /\ UNCHANGED others

\* await post(...) raises an exception of the bus
post_raises(id) ==
    /\ frame[id].pc \in AtPost
    /\ IF frame[id].pc = "post_progress"
       THEN on_exception(id, BusError, Fault("bus_error", frame[id].pc))
       ELSE /\ frame' = [frame EXCEPT ![id].pc = "raised"]
            /\ obs' = [obs EXCEPT ![id].faults =
                                    Append(@, Fault("bus_error", frame[id].pc))]
            /\ UNCHANGED task_dir
    /\ UNCHANGED <<published, stale>>
    /\ UNCHANGED others

\* task.cancel() reaches the run at its wait; at a post the bus has either
\* taken the message already (delivered) or not
cancel(id, delivered) ==
    /\ frame[id].pc \in {"next_event"} \cup AtPost
    /\ delivered => frame[id].pc \in AtPost
    /\ IF delivered THEN publish(id) ELSE UNCHANGED published
    /\ IF frame[id].pc \in {"next_event", "post_progress"}
       THEN on_cancelled(id, Fault("cancel", frame[id].pc))
       ELSE /\ frame' = [frame EXCEPT ![id].pc = "cancelled"]
            /\ obs' = [obs EXCEPT ![id].faults =
                                    Append(@, Fault("cancel", frame[id].pc))]
            /\ UNCHANGED task_dir
    /\ UNCHANGED stale
    /\ UNCHANGED others

(* ------------------------------ supervisor ---------------------------- *)
\* restart without the drain_stale of the new process
restart_nodrain ==
    /\ \E id \in Ids : task_dir[id].exists
    /\ frame' = [id \in Ids |->
                    IF frame[id].pc \in Ended \cup {"idle"}
                    THEN frame[id] ELSE [frame[id] EXCEPT !.pc = "dead"]]
    /\ stale' = <<>>
    /\ UNCHANGED <<task_dir, published, obs>>
    /\ UNCHANGED others

\* the gateway dies and starts again: every run of the dead process is gone,
\* and the new process calls drain_stale
restart ==
    /\ \E id \in Ids : task_dir[id].exists
    /\ frame' = [id \in Ids |->
                    IF frame[id].pc \in Ended \cup {"idle"}
                    THEN frame[id] ELSE [frame[id] EXCEPT !.pc = "dead"]]
    /\ task_dir' = drain_stale(task_dir).dir
    /\ stale' = drain_stale(task_dir).stale
    /\ UNCHANGED <<published, obs>>
    /\ UNCHANGED others

\* the supervisor drops the task object of an ended run, and the channel
\* adapter has consumed the run's messages from the bus
forget(id) ==
    /\ frame[id].pc \in Ended
    /\ frame' = [frame EXCEPT ![id] = IdleFrame]
    /\ published' = [published EXCEPT ![id] = <<>>]
    /\ obs' = [obs EXCEPT ![id] = NoObs]
    /\ UNCHANGED <<task_dir, stale>>
    /\ UNCHANGED others

\* no run other than id's holds a frame: runs touch disjoint records, frames
\* and messages, so they are taken one after the other
solo(id) == \A j \in Ids \ {id} : frame[j].pc = "idle"

Next ==
    \/ \E req \in Requests : create(req.channel, req.chat_id, req.prompt)
    \/ \E id \in Ids, req \in Requests : solo(id) /\ start(id, req)
    \/ \E id \in Ids : forget(id)
    \/ \E id \in Ids, e \in Events, dt \in Deltas : on_event(id, e, dt)
    \/ \E id \in Ids : stream_raises(id)
    \/ \E id \in Ids : stream_ends(id)
    \/ \E id \in Ids : post_returns(id)
    \/ \E id \in Ids : post_raises(id)
    \/ \E id \in Ids, d \in BOOLEAN : cancel(id, d)
    \/ restart

Spec == Init /\ [][Next]_vars

(* ------------------- the TaskRegistry called directly ------------------ *)
\* the registry's methods as any caller may use them (as the tests do),
\* besides the calls the runs make
Activities == {<<"bash">>}

api_update_activity(id, activity) ==
    /\ task_dir' = update_activity(task_dir, id, activity)
    /\ UNCHANGED <<frame, published, stale, obs>>

api_finish(id, status) ==
    /\ task_dir' = finish(task_dir, id, status)
    /\ UNCHANGED <<frame, published, stale, obs>>

api_drain_stale ==
    /\ task_dir' = drain_stale(task_dir).dir
    /\ stale' = drain_stale(task_dir).stale
    /\ UNCHANGED <<frame, published, obs>>

\* the registry's callers together: any direct call, and runs over a short
\* stream without progress posts
NextStore ==
    \/ \E req \in Requests : create(req.channel, req.chat_id, req.prompt)
    \/ \E id \in Ids, req \in Requests : solo(id) /\ start(id, req)
    \/ \E id \in Ids, e \in {EvTool, EvResultErr} : on_event(id, e, 0)
    \/ \E id \in Ids : stream_ends(id)
    \/ \E id \in Ids : post_returns(id)
    \/ \E id \in Ids : cancel(id, FALSE)
    \/ \E id \in Ids : forget(id)
    \/ \E id \in Ids, a \in Activities :
            api_update_activity(id, a) /\ UNCHANGED others
    \/ \E id \in Ids, st \in Terminal : api_finish(id, st) /\ UNCHANGED others
    \/ api_drain_stale /\ UNCHANGED others

SpecStore == Init /\ [][NextStore]_vars

(* ============================ properties ============================== *)
status(id) == task_dir[id].data.status
Exists(id) == task_dir[id].exists

\* the run has ended by its own code: return, CancelledError or exception
Over(id) == frame[id].pc \in {"returned", "cancelled", "raised"}

IsProgress(msg) == IsPrefix(<<"[WAIT]">>, msg.content)
\* the terminal messages a run has published, in order
TerminalMsgs(id) == SelectSeq(published[id], LAMBDA m : ~IsProgress(m))
LastMsg(id) == published[id][Len(published[id])]

\* the step publishes a message of run id
Publishes(id) == Len(published'[id]) = Len(published[id]) + 1
NewMsg(id) == published'[id][Len(published'[id])]

StreamOver(id) ==
    frame[id].pc \in {"post_final", "post_failed", "post_cancelled"} \/ Over(id)

\* C2: a run never calls registry.finish twice, and once its stream has
\* ended it has called it exactly once, with done, error or cancelled.
C2_OneTerminalWrite ==
    \A id \in Ids :
        /\ Len(obs[id].finishes) <= 1
        /\ StreamOver(id) =>
            Len(obs[id].finishes) = 1 /\ obs[id].finishes[1] \in Terminal

\* a run cancelled in the loop and cancelled again at its notice is over,
\* with its one finish call
C2_CancelledTwiceOver ==
    \E id \in Ids :
        /\ frame[id].pc = "cancelled"
        /\ Len(obs[id].faults) = 2
        /\ obs[id].finishes = <<"cancelled">>

(* ---------------------------------------------------------------------- *)
\* C3 as stated: every run that ended by returning or by propagating the
\* cancellation has published exactly one terminal message (result text,
\* completion notice, failure message or cancellation notice).
C3_OneTerminalMessage ==
    \A id \in Ids :
        frame[id].pc \in {"returned", "cancelled"} => Len(TerminalMsgs(id)) = 1

(* ---------------------------------------------------------------------- *)
\* the run met exactly one fault: fault
OnlyFault(id, fault) == obs[id].faults = <<fault>>
\* the first fault of the run is a cancellation delivered at pc
FirstCancelAt(id, pc) ==
    obs[id].faults # <<>> /\ obs[id].faults[1] = Fault("cancel", pc)

C5_CancelledAtEvent ==
    /\ [](\A id \in Ids :
            (Over(id) /\ OnlyFault(id, Fault("cancel", "next_event"))) =>
                /\ frame[id].pc = "cancelled"
                /\ status(id) = "cancelled"
                /\ Len(published[id]) > 0
                /\ LastMsg(id).content = CancelNotice)
    /\ [][\A id \in Ids :
            (Publishes(id) /\ NewMsg(id).content = CancelNotice) =>
                (status(id) = "cancelled" /\ obs[id].finishes = <<"cancelled">>)]_vars

C5_CancelledAtEventOver ==
    \E id \in Ids :
        Over(id) /\ OnlyFault(id, Fault("cancel", "next_event"))

(* ---------------------------------------------------------------------- *)
\* the exceptions the loop can meet, and the description of each
LoopErrors == {Fault("stream_error", "next_event"), Fault("bad_event", "next_event"),
               Fault("bus_error", "post_progress")}
Description(fault) ==
    CASE fault.kind = "stream_error" -> StreamError
      [] fault.kind = "bad_event" -> EventError
      [] OTHER -> BusError

\* C6: an exception raised in the loop by the stream, by the activity
\* extraction or by a progress post (with nothing else going wrong) ends
\* with status error, one terminal message that contains the exception's
\* description, and a normal return.
C6_ExceptionAbsorbed ==
    \A id \in Ids : \A fault \in LoopErrors :
        (Over(id) /\ OnlyFault(id, fault)) =>
            /\ frame[id].pc = "returned"
            /\ status(id) = "error"
            /\ Len(TerminalMsgs(id)) = 1
            /\ Contains(LastMsg(id).content, Description(fault))

\* a run whose progress post raised has returned
C6_ProgressPostRaised ==
    \E id \in Ids :
        frame[id].pc = "returned" /\ OnlyFault(id, Fault("bus_error", "post_progress"))

(* ---------------------------------------------------------------------- *)
\* the run consumed its whole stream without a fault and returned
NormalEnd(id) == frame[id].pc = "returned" /\ obs[id].faults = <<>>
\* the result event that counts: the last one received
ResultEvent(id) == obs[id].last_result

\* C7: after a stream that ends normally and whose result event has
\* non-empty text and no error flag (is_error false, subtype not
\* error_during_execution), the final message is that text exactly and the
\* status is done.
C7_ResultTextAsIs ==
    \A id \in Ids :
        ( /\ NormalEnd(id) /\ obs[id].has_result
          /\ ResultEvent(id).result # <<>>
          /\ ~ResultEvent(id).is_error
          /\ ResultEvent(id).subtype # "error_during_execution" ) =>
            /\ LastMsg(id).content = ResultEvent(id).result
            /\ status(id) = "done"

C7_SuccessReturned ==
    \E id \in Ids :
        /\ NormalEnd(id) /\ obs[id].has_result
        /\ ResultEvent(id) = EvResultOk
        /\ obs[id].nevents = 2

C9_NoResultCompleted ==
    \A id \in Ids :
        (NormalEnd(id) /\ ~obs[id].has_result) =>
            /\ LastMsg(id).content = Completed
            /\ status(id) = "done"

C9_NoResultReturned ==
    \E id \in Ids :
        NormalEnd(id) /\ ~obs[id].has_result /\ obs[id].nevents > 0

(* ---------------------------------------------------------------------- *)
\* C10: the registry write comes before the post: when a progress message
\* showing an activity of the stream is published, that activity is already
\* the record's last_activity; when a terminal message is published the run
\* has made its finish call and the status is already done, error or
\* cancelled; so a run with a terminal message has a terminal status.
C10_WriteBeforePost ==
    /\ [][\A id \in Ids :
            Publishes(id) =>
                IF IsProgress(NewMsg(id))
                THEN /\ Contains(NewMsg(id).content, frame[id].last_activity)
                     /\ frame[id].last_activity # Starting =>
                            task_dir[id].data.last_activity = frame[id].last_activity
                ELSE /\ Len(obs[id].finishes) = 1
                     /\ status(id) \in Terminal]_vars
    /\ [](\A id \in Ids : TerminalMsgs(id) # <<>> => status(id) \in Terminal)

\* a run has published a progress message showing a tool call, and then
\* its terminal message
C10_ProgressThenTerminal ==
    \E id \in Ids :
        /\ Len(published[id]) = 2
        /\ IsProgress(published[id][1])
        /\ Contains(published[id][1].content, <<"bash", "(\"", "ls", "\")">>)
        /\ ~IsProgress(published[id][2])

(* --------------------- the registry, call by call --------------------- *)
\* create as it is written: the id is the first 8 hex digits of a uuid4,
\* whatever files there are, and _save writes <id>.json (on a path that
\* cannot be reached write_text raises and nothing is written)
create_uuid(channel, chat_id, prompt) ==
    \E id \in Ids :
        /\ ~exists_raises(task_dir[id])
        /\ task_dir' = save(task_dir,
                            TaskRecord(id, channel, chat_id, Take(prompt, PreviewLen),
                                       Cardinality({i \in Ids : task_dir[i].exists})))
        /\ called' = Call("create", id, <<channel, chat_id>> \o prompt)
        /\ UNCHANGED <<frame, published, stale, obs>>
        /\ UNCHANGED <<stream_vars, labelled>>

call_update_activity(id, activity) ==
    /\ api_update_activity(id, activity)
    /\ called' = [Call("update_activity", id, activity) EXCEPT
                      !.raised = exists_raises(task_dir[id])]
    /\ UNCHANGED <<stream_vars, labelled>>

call_finish(id, st) ==
    /\ api_finish(id, st)
    /\ called' = [Call("finish", id, <<st>>) EXCEPT
                      !.raised = exists_raises(task_dir[id])]
    /\ UNCHANGED <<stream_vars, labelled>>

call_drain_stale ==
    /\ api_drain_stale
    /\ called' = [Call("drain_stale", "", <<>>) EXCEPT
                      !.again = (called.op = "drain_stale"),
                      !.first = IF called.op = "drain_stale" THEN stale ELSE <<>>]
    /\ UNCHANGED <<stream_vars, labelled>>

\* a request whose prompt is one character longer than the preview
LongRequest == Request("discord", "c1", [i \in 1..(PreviewLen + 1) |-> "x"], <<>>)

\* one process working on a task directory through the registry alone
NextReg ==
    \/ \E req \in Requests \cup {LongRequest} :
            create_uuid(req.channel, req.chat_id, req.prompt)
    \/ \E id \in Ids, a \in Activities : call_update_activity(id, a)
    \/ \E id \in Ids, st \in Terminal : call_finish(id, st)
    \/ call_drain_stale

\* from an empty directory: every file is one the registry wrote
SpecReg == Init /\ [][NextReg]_vars

\* what data.get("status") gives for the file of id, "None" when there is
\* no file or it does not load as a dict
stored_status(id) ==
    IF loads_dict(task_dir[id]) THEN get_status(task_dir[id]) ELSE "None"

(* ---------------------------------------------------------------------- *)
\* C11: after finish(id, s) on an existing readable record the stored
\* status is s, and no later update_activity, finish, drain_stale or create
\* for another task makes the status of that record running again.
C11_FinishedStays ==
    [][\A id \in Ids :
        /\ \A s \in Terminal :
              (called' = Call("finish", id, <<s>>) /\ loads_dict(task_dir[id]))
                  => stored_status(id)' = s
        /\ stored_status(id) \in Terminal => stored_status(id)' # "running"]_vars

(* ---------------------------------------------------------------------- *)
\* the ids, in path order, of the files whose stored status is running, and
\* their records
RunningIds(dir) ==
    SelectSeq(SortedIds, LAMBDA id : loads_dict(dir[id]) /\ get_status(dir[id]) = "running")
RunningRecords(dir) ==
    [i \in 1..Len(RunningIds(dir)) |-> dir[RunningIds(dir)[i]].data]

\* C12: of two consecutive drain_stale calls the first returns exactly the
\* records whose status was running and rewrites each of them to stale
\* (and nothing else); the second returns the empty list.
C12_DrainTwice ==
    [][called'.op = "drain_stale" =>
        /\ stale' = RunningRecords(task_dir)
        /\ \A id \in Ids :
              task_dir'[id] =
                  IF loads_dict(task_dir[id]) /\ get_status(task_dir[id]) = "running"
                  THEN [task_dir[id] EXCEPT !.data.status = "stale"]
                  ELSE task_dir[id]
        /\ drain_stale(task_dir').stale = <<>>
        /\ called'.again => stale' = <<>>]_vars

\* drain_stale was called twice in a row: the first call returned records,
\* the second none
C12_DrainedTwice ==
    /\ called.op = "drain_stale" /\ called.again
    /\ called.first # <<>>
    /\ stale = <<>>
    /\ \A i \in 1..Len(called.first) : stored_status(called.first[i].id) = "stale"

(* ------------- the registry over a directory it did not write --------- *)
\* the files a process may find at startup: none, a record as the registry
\* writes it, and what another version of the program, an editor or a
\* broken write may have left: an object with a key beyond the seven, an
\* object without last_activity, without prompt_preview, without status,
\* a text that is not JSON, a JSON value that is not an object, a path
\* that cannot be reached
BlankRecord == TaskRecord("", "", "", <<>>, 0)
FoundRecord(id, st) ==
    [TaskRecord(id, "discord", "c1", <<"do", " ", "it">>, 0) EXCEPT !.status = st]
FilesOf(id) ==
    {NoFile,
     File(FoundRecord(id, "running")),
     File(FoundRecord(id, "done")),
     [File(FoundRecord(id, "running")) EXCEPT !.extra = TRUE],
     [File(FoundRecord(id, "running")) EXCEPT !.missing = {"last_activity"}],
     [File([FoundRecord(id, "running") EXCEPT !.prompt_preview = <<>>])
         EXCEPT !.missing = {"prompt_preview"}],
     [File(FoundRecord(id, "")) EXCEPT !.missing = {"status"}],
     [File(BlankRecord) EXCEPT !.json = "invalid"],
     [File(BlankRecord) EXCEPT !.json = "other"],
     [File(BlankRecord) EXCEPT !.stat = "fails", !.json = "invalid"]}

InitDir ==
    /\ StreamOff
    /\ task_dir \in {d \in [Ids -> UNION {FilesOf(id) : id \in Ids}] :
                        \A id \in Ids : d[id] \in FilesOf(id)}
    /\ frame = [id \in Ids |-> IdleFrame]
    /\ published = [id \in Ids |-> <<>>]
    /\ stale = <<>>
    /\ obs = [id \in Ids |-> NoObs]
    /\ called = NoCall

SpecDir == InitDir /\ [][NextReg]_vars

(* ---------------------------------------------------------------------- *)
\* C13: after drain_stale returns, no file that parses as a JSON object has
\* status running, and every record that had status running is in the
\* returned list, also when the object holds keys beyond the seven known
\* ones or lacks some of them.
C13_NoneLeftRunning ==
    [][called'.op = "drain_stale" =>
        /\ \A id \in Ids : stored_status(id)' # "running"
        /\ \A id \in Ids :
              stored_status(id) = "running"
                  => \E i \in 1..Len(stale') : stale'[i].id = id]_vars

(* ------------------- the process stops inside a write ------------------ *)
\* path.write_text(json.dumps(data)) opens the file for writing, which
\* empties it, and then writes the text. A process that stops in between
\* (kill -9, power loss) leaves an empty or truncated text, which is not
\* JSON. A run waiting for its next event is one step away from such a
\* write on its record (update_activity for an event with an activity,
\* finish when the stream ends, raises or the run is cancelled). The stops
\* that leave the old or the complete new text are the restart steps before
\* and after the write. As in restart, the new process then calls
\* drain_stale.
stop_in_write(id) ==
    /\ frame[id].pc = "next_event"
    /\ loads_dict(task_dir[id])
    /\ LET torn == [task_dir EXCEPT
                       ![id] = [File(BlankRecord) EXCEPT !.json = "invalid"]]
       IN  /\ task_dir' = drain_stale(torn).dir
           /\ stale' = drain_stale(torn).stale
    /\ frame' = [j \in Ids |->
                    IF frame[j].pc \in Ended \cup {"idle"}
                    THEN frame[j] ELSE [frame[j] EXCEPT !.pc = "dead"]]
    /\ UNCHANGED <<published, obs>>
    /\ UNCHANGED others

\* runs over a short stream in a process that may stop at any point
NextCrash ==
    \/ \E req \in Requests : create(req.channel, req.chat_id, req.prompt)
    \/ \E id \in Ids, req \in Requests : solo(id) /\ start(id, req)
    \/ \E id \in Ids, e \in {EvTool, EvResultOk}, dt \in Deltas : on_event(id, e, dt)
    \/ \E id \in Ids : stream_ends(id)
    \/ \E id \in Ids : post_returns(id)
    \/ \E id \in Ids : cancel(id, FALSE)
    \/ \E id \in Ids : forget(id)
    \/ restart
    \/ \E id \in Ids : stop_in_write(id)

SpecCrash == Init /\ [][NextCrash]_vars

\* the process stops in this step while the run of id is live and has not
\* called finish yet
StopsUnfinished(id) ==
    /\ frame[id].pc \notin Ended \cup {"idle"}
    /\ frame'[id].pc = "dead"
    /\ obs[id].finishes = <<>>

\* the startup of this step returned the record of id and marked it stale
Reclaimed(id) ==
    /\ stored_status(id)' = "stale"
    /\ \E i \in 1..Len(stale') : stale'[i].id = id

(* ---------------------------------------------------------------------- *)
\* C14 as stated: if the process stops at any point while a run has not yet
\* written a terminal status, including in the middle of a write of the
\* record, the drain_stale of the next startup returns the run's record and
\* marks it stale.
C14_AlwaysReclaimed ==
    [][\A id \in Ids : StopsUnfinished(id) => Reclaimed(id)]_vars

\* C14 amended: if the process stops while a run has not yet written a
\* terminal status and the record's file is whole (no write of it was cut
\* short), the next startup's drain_stale returns the record and marks it
\* stale; a stop inside a write leaves a text that is not JSON, and then
\* drain_stale does not return the record and leaves the file as it is.
C14_ReclaimedUnlessTorn ==
    [][\A id \in Ids :
        StopsUnfinished(id) =>
            IF task_dir'[id].json = "invalid"
            THEN /\ \A i \in 1..Len(stale') : stale'[i].id # id
                 /\ stored_status(id)' = "None"
            ELSE Reclaimed(id)]_vars

\* a run that had received events and not called finish was stopped with
\* its file whole: the startup returned its record and marked it stale
C14_StoppedAfterEvent ==
    \E id \in Ids :
        /\ frame[id].pc = "dead"
        /\ obs[id].nevents > 0 /\ obs[id].finishes = <<>>
        /\ stored_status(id) = "stale"
        /\ task_dir[id].data.last_activity # <<>>
        /\ \E i \in 1..Len(stale) : stale[i].id = id

(* ============ ClaudeCliProvider.run_task_streaming ==================== *)
(* The async generator, its subprocess and its stderr drain task, on one  *)
(* event loop.  The generator runs from one suspension point to the next: *)
(* the spawn, the bounded readline, each yield, proc.wait() and the await *)
(* of the drain task.  Times are whole seconds.                           *)
(* ---------------------------------------------------------------------- *)
\* lines one stream may deliver on stdout, and stderr lines the drain reads
MaxLines == 2
MaxErrLines == 2

\* min(remaining, 60.0): the longest one readline waits
POLL_S == 60
\* the default stream_timeout, and the ones tried: 1 s as in the tests,
\* one between one and two polling intervals, the default
DEFAULT_STREAM_TIMEOUT == 900
StreamTimeouts == {1, 90, DEFAULT_STREAM_TIMEOUT}
\* how long a line, or the consumer between two requests, may take
Waits == {0, 40}
\* what the process may exit with by itself
ExitCodes == {0, 3}
\* what create_subprocess_exec raises for a missing binary, and for one
\* that cannot be executed
SpawnErrors == {"FileNotFoundError", "PermissionError"}
\* proc.returncode of a process ended by SIGKILL
SIGKILL_RC == 0 - 9
\* proc.returncode when the loop's child watcher finds the exit status
\* already collected: proc.kill() polls the process before it signals, and
\* collects the status of one that has just exited ("Unknown child process
\* pid ..., will report returncode 255")
LOST_RC == 255

\* a stdout line by what the loop body makes of it: "blank" is empty after
\* strip, "garbage" is not JSON, "nondict" a JSON value without .get,
\* "overlong" exceeds the StreamReader limit (readline raises ValueError),
\* "event" a JSON object of type assistant, "result" one of type result.
\* gen.lines keeps the lines read so far, in order.
StdoutLines == {"blank", "garbage", "nondict", "overlong", "event", "result"}
\* json.loads(decoded) of a line that is valid JSON
event_of(line) ==
    CASE line = "result" -> EvResultOk
      [] line = "nondict" -> EvNotDict
      [] OTHER -> EvTool

\* stderr lines as written: text, text in blanks, blanks only
ErrTexts == {<<"boom">>, <<" ", "warn", " ">>, <<" ">>}

\* "\n".join(lines)
RECURSIVE JoinLines(_)
JoinLines(lines) ==
    IF lines = <<>> THEN <<>>
    ELSE IF Len(lines) = 1 THEN lines[1]
    ELSE lines[1] \o <<"\n">> \o JoinLines(Tail(lines))

\* the timed-out event without its text
TimedOutEvent_mute(stream_timeout) == Event("result", <<>>, <<>>, TRUE, "")

\* the synthetic event of a timeout
TimedOutEvent(stream_timeout) ==
    Event("result", <<>>,
          <<"Error: claude CLI ", "timed out", " after ",
            ToString(stream_timeout), "s.">>,
          TRUE, "")

\* stderr_text without the lines read: the exit code alone
stderr_text_code(lines, returncode) ==
    <<"claude exited with code ", ToString(returncode)>>

\* the text after the colon of the synthetic exit event
stderr_text(lines, returncode) ==
    IF Strip(JoinLines(lines)) # <<>>
    THEN Strip(JoinLines(lines))
    ELSE <<"claude exited with code ", ToString(returncode)>>

\* the synthetic event of a non-zero exit without result event
ExitEvent(returncode, lines) ==
    Event("result", <<>>,
          <<"Error: claude CLI exited with code ", ToString(returncode), ": ">>
              \o stderr_text(lines, returncode),
          TRUE, "")

\* after_finally with `if` in the place of `elif`: after a timeout the exit
\* event is yielded as well
after_finally_both(g, returncode, task) ==
    IF task.state = "failed"
    THEN [gen |-> [g EXCEPT !.pc = "raised", !.exc = "ValueError"], out |-> <<>>]
    ELSE IF g.pending = "raise"
    THEN [gen |-> [g EXCEPT !.pc = "raised"], out |-> <<>>]
    ELSE IF g.pending = "cancel"
    THEN [gen |-> [g EXCEPT !.pc = "cancelled"], out |-> <<>>]
    ELSE IF g.pending = "close"
    THEN [gen |-> [g EXCEPT !.pc = "closed"], out |-> <<>>]
    ELSE IF g.timed_out \/ (returncode # 0 /\ ~g.got_result_event)
    THEN [gen |-> [g EXCEPT !.pc = "yielded_final"],
          out |-> (IF g.timed_out THEN <<TimedOutEvent(g.stream_timeout)>> ELSE <<>>)
                    \o (IF returncode # 0 /\ ~g.got_result_event
                        THEN <<ExitEvent(returncode, task.lines)>> ELSE <<>>)]
    ELSE [gen |-> [g EXCEPT !.pc = "done"], out |-> <<>>]

\* what follows the finally clause, for the frame g, the returncode and the
\* drain task as they are when `await stderr_task` is over: the task's
\* exception if it failed, else the exception in flight (an error raised in
\* the loop, CancelledError, GeneratorExit), else the synthetic event or
\* the end of the sequence
after_finally(g, returncode, task) ==
    IF task.state = "failed"
    THEN [gen |-> [g EXCEPT !.pc = "raised", !.exc = "ValueError"], out |-> <<>>]
    ELSE IF g.pending = "raise"
    THEN [gen |-> [g EXCEPT !.pc = "raised"], out |-> <<>>]
    ELSE IF g.pending = "cancel"
    THEN [gen |-> [g EXCEPT !.pc = "cancelled"], out |-> <<>>]
    ELSE IF g.pending = "close"
    THEN [gen |-> [g EXCEPT !.pc = "closed"], out |-> <<>>]
    ELSE IF g.timed_out
    THEN [gen |-> [g EXCEPT !.pc = "yielded_final"],
          out |-> <<TimedOutEvent(g.stream_timeout)>>]
    ELSE IF returncode # 0 /\ ~g.got_result_event
    THEN [gen |-> [g EXCEPT !.pc = "yielded_final"],
          out |-> <<ExitEvent(returncode, task.lines)>>]
    ELSE [gen |-> [g EXCEPT !.pc = "done"], out |-> <<>>]

\* `await stderr_task` for the frame g: a finished task is not waited for
await_stderr(g, returncode) ==
    IF stderr_task.state = "pending"
    THEN /\ gen' = [g EXCEPT !.pc = "drain"]
         /\ UNCHANGED yielded
    ELSE /\ gen' = after_finally(g, returncode, stderr_task).gen
         /\ yielded' = yielded \o after_finally(g, returncode, stderr_task).out

\* the finally clause, entered with the frame g: proc.kill(), then
\* proc.wait() and the await of the drain task, as far as the first of them
\* that has to wait. kill on a process whose exit the loop knows raises
\* ProcessLookupError (caught); on one that has just exited it may collect
\* the exit status before the child watcher does; on a live one it sends
\* SIGKILL.
enter_finally(g) ==
    /\ CASE proc.state = "exited" ->
              /\ proc' = [proc EXCEPT !.killed = TRUE, !.waited = TRUE]
              /\ await_stderr(g, proc.returncode)
         [] proc.state = "zombie" ->
              /\ \E r \in {proc.report, LOST_RC} :
                    proc' = [proc EXCEPT !.killed = TRUE, !.report = r]
              /\ gen' = [g EXCEPT !.pc = "wait"]
              /\ UNCHANGED yielded
         [] proc.state = "running" ->
              /\ proc' = [proc EXCEPT !.state = "zombie", !.report = SIGKILL_RC,
                                      !.stdout = "closed", !.killed = TRUE,
                                      !.sigkilled = TRUE]
              /\ gen' = [g EXCEPT !.pc = "wait"]
              /\ UNCHANGED yielded
    /\ UNCHANGED stderr_task

\* the top of the while loop at time now
loop_top(g, now) ==
    IF g.deadline - now <= 0
    THEN enter_finally([g EXCEPT !.timed_out = TRUE, !.timed_out_at = now])
    ELSE /\ gen' = [g EXCEPT !.pc = "read"]
         /\ UNCHANGED <<proc, stderr_task, yielded>>

\* the first request: create_subprocess_exec, the locals, the drain task,
\* and the loop up to the first readline. A missing or unusable binary
\* makes create_subprocess_exec raise, outside every try. plan is the code
\* the launched process exits with if it gets to exit by itself.
spawn(outcome, plan) ==
    /\ gen.pc = "created"
    /\ IF outcome = "ok"
       THEN /\ proc' = [NoProc EXCEPT !.state = "running", !.stdout = "open",
                                      !.plan = plan]
            /\ stderr_task' = [NoTask EXCEPT !.state = "pending"]
            /\ gen' = [gen EXCEPT !.pc = "read",
                                  !.deadline = clock + gen.stream_timeout]
       ELSE /\ gen' = [gen EXCEPT !.pc = "raised", !.exc = outcome]
            /\ UNCHANGED <<proc, stderr_task>>
    /\ UNCHANGED <<clock, yielded>>
    /\ UNCHANGED task_vars

\* readline returns a line after d seconds, within the bound of this read
read_line(line, d) ==
    /\ gen.pc = "read"
    /\ proc.stdout = "open"
    /\ gen.nlines < MaxLines
    /\ d < (IF gen.deadline - clock < POLL_S THEN gen.deadline - clock ELSE POLL_S)
    /\ clock' = clock + d
    /\ LET g == [gen EXCEPT !.nlines = @ + 1, !.lines = Append(@, line)]
       IN  CASE line \in {"blank", "garbage"} -> loop_top(g, clock')
             [] line = "nondict" ->
                  enter_finally([g EXCEPT !.pending = "raise", !.exc = "AttributeError"])
             [] line = "overlong" ->
                  enter_finally([g EXCEPT !.pending = "raise", !.exc = "ValueError"])
             [] line \in {"event", "result"} ->
                  /\ gen' = [g EXCEPT !.pc = "yielded",
                                      !.got_result_event = @ \/ line = "result"]
                  /\ yielded' = Append(yielded, event_of(line))
                  /\ UNCHANGED <<proc, stderr_task>>
    /\ UNCHANGED task_vars

\* readline returns b"": stdout is at end of file
read_eof ==
    /\ gen.pc = "read"
    /\ proc.stdout = "closed"
    /\ enter_finally(gen)
    /\ UNCHANGED clock
    /\ UNCHANGED task_vars

\* wait_for gives up after min(remaining, 60.0) seconds without a line
read_timeout ==
    /\ gen.pc = "read"
    /\ proc.stdout = "open"
    /\ clock' = clock + (IF gen.deadline - clock < POLL_S
                         THEN gen.deadline - clock ELSE POLL_S)
    /\ enter_finally([gen EXCEPT !.timed_out = TRUE, !.timed_out_at = clock'])
    /\ UNCHANGED task_vars

\* the consumer asks for the next event, dt seconds after it got the last
anext(dt) ==
    /\ gen.pc \in {"yielded", "yielded_final"}
    /\ clock' = clock + dt
    /\ IF gen.pc = "yielded"
       THEN loop_top(gen, clock')
       ELSE /\ gen' = [gen EXCEPT !.pc = "done"]
            /\ UNCHANGED <<proc, stderr_task, yielded>>
    /\ UNCHANGED task_vars

\* the consumer leaves the loop after an event and the generator is closed
\* (aclose, by the consumer or by the loop's finalizer): GeneratorExit at
\* the yield
aclose ==
    /\ gen.pc \in {"yielded", "yielded_final"}
    /\ IF gen.pc = "yielded"
       THEN enter_finally([gen EXCEPT !.pending = "close"])
       ELSE /\ gen' = [gen EXCEPT !.pc = "closed"]
            /\ UNCHANGED <<proc, stderr_task, yielded>>
    /\ UNCHANGED clock
    /\ UNCHANGED task_vars

\* proc.wait() returns: the loop knows the exit
wait_returns ==
    /\ gen.pc = "wait"
    /\ proc.state = "exited"
    /\ proc' = [proc EXCEPT !.waited = TRUE]
    /\ await_stderr(gen, proc.returncode)
    /\ UNCHANGED <<stderr_task, clock>>
    /\ UNCHANGED task_vars

\* `await stderr_task` returns or raises: the drain task is over
drain_returns ==
    /\ gen.pc = "drain"
    /\ stderr_task.state # "pending"
    /\ gen' = after_finally(gen, proc.returncode, stderr_task).gen
    /\ yielded' = yielded \o after_finally(gen, proc.returncode, stderr_task).out
    /\ UNCHANGED <<proc, stderr_task, clock>>
    /\ UNCHANGED task_vars

\* the consumer's task is cancelled while it waits inside the generator:
\* CancelledError at the readline (the finally clause runs), at proc.wait()
\* or at the await of the drain task (inside the finally clause: the rest
\* of it is skipped; a task awaited by a cancelled task is cancelled too).
\* A consumer is cancelled at most once.
cancel_gen ==
    /\ ~gen.cancelled
    /\ gen.pending # "close"
    /\ gen.pc \in {"read", "wait", "drain"}
    /\ CASE gen.pc = "read" ->
              enter_finally([gen EXCEPT !.pending = "cancel", !.cancelled = TRUE])
         [] gen.pc = "wait" ->
              /\ gen' = [gen EXCEPT !.pc = "cancelled", !.cancelled = TRUE]
              /\ UNCHANGED <<proc, stderr_task, yielded>>
         [] gen.pc = "drain" ->
              /\ gen' = [gen EXCEPT !.pc = "cancelled", !.cancelled = TRUE]
              /\ stderr_task' = [stderr_task EXCEPT !.state = "cancelled"]
              /\ UNCHANGED <<proc, yielded>>
    /\ UNCHANGED clock
    /\ UNCHANGED task_vars

(* ------------------------------ the subprocess ------------------------ *)
proc_closes_stdout ==
    /\ proc.state = "running"
    /\ proc.stdout = "open"
    /\ proc' = [proc EXCEPT !.stdout = "closed", !.own = TRUE]
    /\ UNCHANGED <<gen, stderr_task, clock, yielded>>
    /\ UNCHANGED task_vars

\* the process exits by itself; the loop does not know yet
proc_exits ==
    /\ proc.state = "running"
    /\ proc' = [proc EXCEPT !.state = "zombie", !.report = proc.plan,
                            !.stdout = "closed", !.own = TRUE]
    /\ UNCHANGED <<gen, stderr_task, clock, yielded>>
    /\ UNCHANGED task_vars

\* the loop's child watcher reports the exit: proc.returncode is set
child_watcher ==
    /\ proc.state = "zombie"
    /\ proc' = [proc EXCEPT !.state = "exited", !.returncode = proc.report]
    /\ UNCHANGED <<gen, stderr_task, clock, yielded>>
    /\ UNCHANGED task_vars

(* ------------------------------ _drain_stderr ------------------------- *)
\* one stderr line read: kept, without trailing blanks, unless empty then
stderr_line(text) ==
    /\ stderr_task.state = "pending"
    /\ proc.state = "running"
    /\ stderr_task.nread < MaxErrLines
    /\ stderr_task' =
          [stderr_task EXCEPT
              !.nread = @ + 1,
              !.lines = IF RStrip(text) # <<>> THEN Append(@, RStrip(text)) ELSE @]
    /\ UNCHANGED <<gen, proc, clock, yielded>>
    /\ UNCHANGED task_vars

\* a stderr line longer than the StreamReader limit: readline raises
\* ValueError and the task ends with it
stderr_overlong ==
    /\ stderr_task.state = "pending"
    /\ proc.state = "running"
    /\ stderr_task' = [stderr_task EXCEPT !.state = "failed"]
    /\ UNCHANGED <<gen, proc, clock, yielded>>
    /\ UNCHANGED task_vars

\* stderr is at end of file once the process is gone: the task returns
stderr_eof ==
    /\ stderr_task.state = "pending"
    /\ proc.state \in {"zombie", "exited"}
    /\ stderr_task' = [stderr_task EXCEPT !.state = "done"]
    /\ UNCHANGED <<gen, proc, clock, yielded>>
    /\ UNCHANGED task_vars

InitStream ==
    /\ task_dir = [id \in Ids |-> NoFile]
    /\ frame = [id \in Ids |-> IdleFrame]
    /\ published = [id \in Ids |-> <<>>]
    /\ stale = <<>>
    /\ obs = [id \in Ids |-> NoObs]
    /\ called = NoCall
    /\ labelled = NoLabelled
    /\ \E t \in StreamTimeouts : gen = [NoGen EXCEPT !.pc = "created", !.stream_timeout = t]
    /\ proc = NoProc
    /\ stderr_task = NoTask
    /\ clock = 0
    /\ yielded = <<>>

NextStream ==
    \/ \E plan \in ExitCodes : spawn("ok", plan)
    \/ \E outcome \in SpawnErrors : spawn(outcome, 0)
    \/ \E line \in StdoutLines, d \in Waits : read_line(line, d)
    \/ read_eof
    \/ read_timeout
    \/ \E dt \in Waits : anext(dt)
    \/ aclose
    \/ wait_returns
    \/ drain_returns
    \/ cancel_gen
    \/ proc_closes_stdout
    \/ proc_exits
    \/ child_watcher
    \/ \E text \in ErrTexts : stderr_line(text)
    \/ stderr_overlong
    \/ stderr_eof

SpecStream == InitStream /\ [][NextStream]_vars

(* ------------------------- the stderr pipe ---------------------------- *)
(* SpecStream takes the diagnostic output to be small.  Here stderr is a  *)
(* bounded pipe: the OS pipe and the StreamReader's buffer together hold  *)
(* PipeCap chunks (a chunk is a line); the loop stops reading the pipe    *)
(* when the buffer is full, and a process that writes to a full pipe      *)
(* waits inside the write until there is room.                            *)
(* ---------------------------------------------------------------------- *)
PipeCap == 1
\* stderr writes one process may begin
MaxErrChunks == 3
\* a line longer than the StreamReader limit of 64 KiB
Overlong == <<"[over 64 KiB]">>
\* what the process may write to stderr in one line
ErrChunks == ErrTexts \cup {Overlong}

\* the process is inside a write to stderr that cannot complete
Blocked == proc.state = "running" /\ proc.writing

\* the process writes a line to stderr, or starts to wait in the write
proc_writes_stderr(text) ==
    /\ proc.state = "running" /\ ~proc.writing
    /\ Len(proc.errout) < MaxErrChunks
    /\ proc' = IF Len(proc.errpipe) < PipeCap
               THEN [proc EXCEPT !.errpipe = Append(@, text), !.errout = Append(@, text)]
               ELSE [proc EXCEPT !.writing = TRUE]
    /\ UNCHANGED <<gen, stderr_task, clock, yielded>>
    /\ UNCHANGED task_vars

\* a write that waited completes once the pipe has room
write_completes(text) ==
    /\ Blocked
    /\ Len(proc.errpipe) < PipeCap
    /\ proc' = [proc EXCEPT !.errpipe = Append(@, text), !.errout = Append(@, text),
                            !.writing = FALSE]
    /\ UNCHANGED <<gen, stderr_task, clock, yielded>>
    /\ UNCHANGED task_vars

\* _drain_stderr reads the next line from the pipe: kept, without trailing
\* blanks, unless empty then
drain_reads ==
    /\ stderr_task.state = "pending"
    /\ proc.errpipe # <<>>
    /\ Head(proc.errpipe) # Overlong
    /\ proc' = [proc EXCEPT !.errpipe = Tail(@)]
    /\ stderr_task' =
          [stderr_task EXCEPT
              !.nread = @ + 1,
              !.lines = IF RStrip(Head(proc.errpipe)) # <<>>
                        THEN Append(@, RStrip(Head(proc.errpipe))) ELSE @]
    /\ UNCHANGED <<gen, clock, yielded>>
    /\ UNCHANGED task_vars

\* the next line in the pipe is longer than the StreamReader limit:
\* readline drops it and raises ValueError, which ends _drain_stderr
drain_overlong ==
    /\ stderr_task.state = "pending"
    /\ proc.errpipe # <<>>
    /\ Head(proc.errpipe) = Overlong
    /\ proc' = [proc EXCEPT !.errpipe = Tail(@)]
    /\ stderr_task' = [stderr_task EXCEPT !.state = "failed"]
    /\ UNCHANGED <<gen, clock, yielded>>
    /\ UNCHANGED task_vars

\* readline returns b"": the process is gone and the pipe is empty
drain_eof ==
    /\ proc.errpipe = <<>>
    /\ stderr_eof

\* the process writes events faster than the client takes them: the
\* StreamReader of stdout holds more than twice its limit, the loop stops
\* reading the pipe, and the process stays ahead from then on
proc_fills_stdout ==
    /\ proc.state = "running" /\ proc.stdout = "open"
    /\ ~proc.outfull
    /\ proc' = [proc EXCEPT !.outfull = TRUE, !.own = TRUE]
    /\ UNCHANGED <<gen, stderr_task, clock, yielded>>
    /\ UNCHANGED task_vars

\* proc.wait() returns once the loop knows the exit and has seen the end
\* of both pipes; it does not read a pipe whose buffer is full
pipe_wait_returns ==
    /\ Len(proc.errpipe) < PipeCap
    /\ ~proc.outfull
    /\ wait_returns

\* a process that writes diagnostics and events, read by a consumer that
\* stays; what the process does besides writing to stderr it does only
\* when it is not waiting inside a write, and one that is ahead of the
\* client on stdout goes on writing events: it does not close stdout or
\* exit by itself, and lines are there to read
NextPipes ==
    \/ \E plan \in ExitCodes : spawn("ok", plan)
    \/ \E line \in {"event", "result"}, d \in Waits :
            (~Blocked \/ proc.outfull) /\ read_line(line, d)
    \/ read_eof
    \/ read_timeout
    \/ \E dt \in Waits : anext(dt)
    \/ pipe_wait_returns
    \/ drain_returns
    \/ ~Blocked /\ ~proc.outfull /\ proc_closes_stdout
    \/ ~Blocked /\ ~proc.outfull /\ proc_exits
    \/ child_watcher
    \/ \E text \in ErrChunks : proc_writes_stderr(text)
    \/ \E text \in ErrChunks : write_completes(text)
    \/ drain_reads
    \/ drain_overlong
    \/ drain_eof
    \/ ~Blocked /\ proc_fills_stdout

\* one call, with a stream_timeout between one and two polling intervals
InitPipes == InitStream /\ gen.stream_timeout = 90

SpecPipes == InitPipes /\ [][NextPipes]_vars

\* what the event loop, the consumer and the kernel do whenever they can:
\* the consumer requests the next event, a wait ends when what it waits
\* for has happened or its time is over, the drain task reads what is in
\* the pipe, a process that has exited or was killed is reported, and the
\* stderr of a process that is gone reaches end of file. What the process
\* does by itself it may never do.
FairPipes ==
    /\ WF_vars(\E plan \in ExitCodes : spawn("ok", plan))
    /\ WF_vars(\E dt \in Waits : anext(dt))
    /\ WF_vars(read_eof)
    /\ WF_vars(read_timeout)
    /\ WF_vars(pipe_wait_returns)
    /\ WF_vars(drain_returns)
    /\ WF_vars(child_watcher)
    /\ WF_vars(\E text \in ErrChunks : write_completes(text))
    /\ WF_vars(drain_reads \/ drain_overlong)
    /\ WF_vars(drain_eof)

LivePipes == SpecPipes /\ FairPipes

(* ---------------------------------------------------------------------- *)
\* the sequence is over: exhausted, ended by an exception or by the
\* consumer's cancellation, or closed
Finished == gen.pc \in {"done", "raised", "cancelled", "closed"}
Launched == proc.state # "none"
\* the consumer keeps asking for events and is not cancelled
ConsumerStays ==
    ~gen.cancelled /\ gen.pending # "close" /\ gen.pc # "closed"
\* the process has written nothing, has not closed stdout and has not
\* exited by itself
Silent ==
    /\ gen.nlines = 0
    /\ ~proc.own
    /\ stderr_task.nread = 0 /\ stderr_task.state # "failed"
\* the status the process ended with: SIGKILL, or its own exit code
exit_status == IF proc.sigkilled THEN SIGKILL_RC ELSE proc.plan
IsTimedOutEvent(e) ==
    e.type = "result" /\ e.is_error /\ Contains(e.result, <<"timed out">>)
IsExitEvent(e) ==
    e.type = "result" /\ e.is_error
        /\ IsPrefix(<<"Error: claude CLI exited with code ">>, e.result)
Last(seq) == seq[Len(seq)]

(* ---------------------------------------------------------------------- *)
\* C15: against a subprocess that never writes and never exits, the stream
\* yields exactly one event, a result event with is_error true whose text
\* contains "timed out", and ends; it never ends by an exception.
C15_SilentTimesOut ==
    (Launched /\ Silent /\ ConsumerStays) =>
        /\ gen.pc \notin {"raised", "cancelled"}
        /\ Len(yielded) <= 1
        /\ gen.pc = "done" => Len(yielded) = 1 /\ IsTimedOutEvent(yielded[1])
        /\ yielded # <<>> => gen.pc \in {"yielded_final", "done"}

\* the stream over a silent process is exhausted, after its one event
C15_SilentDone ==
    /\ Launched /\ Silent /\ ConsumerStays
    /\ gen.pc = "done"
    /\ yielded = <<TimedOutEvent(gen.stream_timeout)>>
    /\ proc.sigkilled /\ proc.waited

(* ---------------------------------------------------------------------- *)
\* C16: the timed-out event is yielded only when the overall deadline
\* (stream_timeout seconds from the start) has expired; a read that gets no
\* line within the polling interval before the deadline is followed by
\* another read.
C16_OnlyAtDeadline ==
    /\ gen.timed_out => gen.timed_out_at >= gen.deadline
    /\ (\E i \in 1..Len(yielded) : IsTimedOutEvent(yielded[i]))
          => clock >= gen.deadline

(* ---------------------------------------------------------------------- *)
\* C17: when the stream ends because stdout was closed (no timeout), a
\* synthetic error event is yielded if and only if the process exit code
\* is non-zero and no result event was yielded; its text carries the
\* stderr text, or "claude exited with code N" when none was captured.
C17_ExitEventIff ==
    (gen.pc = "done" /\ ~gen.timed_out /\ ConsumerStays) =>
        /\ (yielded # <<>> /\ IsExitEvent(Last(yielded)))
              <=> (exit_status # 0 /\ ~gen.got_result_event)
        /\ (yielded # <<>> /\ IsExitEvent(Last(yielded))) =>
              Last(yielded).result =
                  <<"Error: claude CLI exited with code ", ToString(exit_status), ": ">>
                    \o (IF stderr_task.lines # <<>>
                        THEN Strip(JoinLines(stderr_task.lines))
                        ELSE <<"claude exited with code ", ToString(exit_status)>>)

(* ---------------------------------------------------------------------- *)
\* C18: a process that closes stdout without a result event and exits by
\* itself with code zero gives a stream without synthetic error event,
\* whether or not it had exited when the client saw the end of output.
C18_CleanExitNoError ==
    (/\ gen.pc \in {"yielded_final", "done"}
     /\ ~gen.timed_out /\ ConsumerStays
     /\ proc.own /\ proc.plan = 0 /\ ~gen.got_result_event)
        => \A i \in 1..Len(yielded) : ~IsExitEvent(yielded[i])

(* ---------------------------------------------------------------------- *)
\* C19: on every exit path after the launch, the process has been killed
\* and waited for and the drain task has run to its end before the
\* sequence is finished.
C19_CleanedUp ==
    (Finished /\ Launched) =>
        /\ proc.killed /\ proc.state = "exited" /\ proc.waited
        /\ stderr_task.state \in {"done", "failed"}

(* ---------------------------------------------------------------------- *)
\* C20: a missing binary, a spawn failure, an abnormal exit without result
\* event and a timeout each surface as one synthesized result event with
\* is_error true; none is raised as an exception out of the sequence.
C20_FailuresAreEvents ==
    (/\ Finished /\ ConsumerStays
     /\ \/ gen.exc \in SpawnErrors
        \/ gen.pending = "" /\ stderr_task.state = "done" /\ gen.timed_out
        \/ gen.pending = "" /\ ~gen.timed_out /\ proc.waited
              /\ proc.returncode # 0 /\ ~gen.got_result_event)
        => /\ gen.pc = "done"
           /\ yielded # <<>>
           /\ Last(yielded).type = "result" /\ Last(yielded).is_error
           /\ IsTimedOutEvent(Last(yielded)) \/ IsExitEvent(Last(yielded))

(* ---------------------------------------------------------------------- *)
\* the line is valid JSON: json.loads returns a value
IsJson(line) == line \in {"nondict", "event", "result"}
\* the events the client made up itself
IsSynthetic(e) == IsTimedOutEvent(e) \/ IsExitEvent(e)
\* the values of the JSON lines among the lines read, in the order read
JsonValues(lines) ==
    LET js == SelectSeq(lines, IsJson) IN [i \in 1..Len(js) |-> event_of(js[i])]
\* the step reads one stdout line
ReadsLine == gen'.nlines = gen.nlines + 1

\* C21: the events yielded from stdout are exactly the values of the lines
\* read that parse as JSON, one per line, in the order of the lines; after
\* a line that is not JSON or is empty nothing is yielded and the client
\* reads the next line (unless the deadline has passed).
C21_JsonLinesInOrder ==
    /\ [](SelectSeq(yielded, LAMBDA e : ~IsSynthetic(e)) = JsonValues(gen.lines))
    /\ [][(ReadsLine /\ Last(gen'.lines) \in {"blank", "garbage"}) =>
            /\ yielded' = yielded
            /\ gen'.pc = "read" \/ gen'.timed_out]_vars

(* ---------------------------------------------------------------------- *)
\* the step is a direct call of update_activity or finish for id
CallsWrite(id) == called'.op \in {"update_activity", "finish"} /\ called'.id = id

\* C22: update_activity and finish never raise and never create a file;
\* on a record file that is missing, cannot be read or does not hold a JSON
\* object each of them leaves the directory as it was.
C22_NoRaiseNoCreate ==
    [][\A id \in Ids :
        CallsWrite(id) =>
            /\ ~called'.raised
            /\ ~task_dir[id].exists => ~task_dir'[id].exists
            /\ ~loads_dict(task_dir[id]) => task_dir' = task_dir]_vars

(* ---------------------------------------------------------------------- *)
\* C23: every create call draws an id that no persisted record has, so it
\* overwrites no record and leaves every other file as it was; the record
\* it writes has status running, the channel and chat_id given, and as
\* prompt_preview a prefix of the prompt of at most 100 characters.
C23_CreateIsFresh ==
    [][called'.op = "create" =>
        LET id == called'.id
            rec == task_dir'[id].data
        IN  /\ ~task_dir[id].exists
            /\ \A j \in Ids \ {id} : task_dir'[j] = task_dir[j]
            /\ loads_dict(task_dir'[id])
            /\ rec.id = id /\ rec.status = "running"
            /\ rec.channel = called'.arg[1] /\ rec.chat_id = called'.arg[2]
            /\ Len(rec.prompt_preview) <= PreviewLen
            /\ IsPrefix(rec.prompt_preview, SubSeq(called'.arg, 3, Len(called'.arg)))]_vars

(* ---------------------------------------------------------------------- *)
last_activity(id) == task_dir[id].data.last_activity
CallsUpdate(id) == called'.op = "update_activity" /\ called'.id = id

\* C24 as stated: update_activity changes last_activity only on a record
\* whose status is running; on a record that is done, error, cancelled or
\* stale it leaves the record unchanged.
C24_FrozenOnceTerminal ==
    [][\A id \in Ids :
        (CallsUpdate(id) /\ stored_status(id) # "running")
            => task_dir'[id] = task_dir[id]]_vars

\* C24 amended: update_activity does not look at the status: on every
\* record file that holds a JSON object, running or done, error, cancelled
\* or stale, it sets last_activity to the text given and changes nothing
\* else of the record and no other file; last_activity is changed by
\* nothing but update_activity and the create that writes the record.
C24_ActivityWhateverStatus ==
    [][\A id \in Ids :
        /\ (CallsUpdate(id) /\ loads_dict(task_dir[id])) =>
              /\ last_activity(id)' = called'.arg
              /\ task_dir' = [task_dir EXCEPT ![id].data.last_activity = called'.arg]
        /\ last_activity(id)' # last_activity(id) =>
              \/ CallsUpdate(id)
              \/ called'.op = "create" /\ called'.id = id]_vars

\* update_activity was called on a record that drain_stale had returned,
\* or that was finished: the record shows the activity given
C24_UpdatedAfterTerminal ==
    /\ called.op = "update_activity"
    /\ stored_status(called.id) \in Terminal \cup {"stale"}
    /\ last_activity(called.id) = called.arg /\ called.arg # <<>>

(* ------------------- several runs on one event loop ------------------- *)
\* The dispatcher creates one record per request and starts one run per
\* record, with no reply_to token, with one, or with an empty one; the runs are tasks of the same loop, each one proceeding from an
\* await to its next await (the next event of its stream, a post), in any
\* order. Every run has its own stream: events with a tool call and failed
\* results, 0 or 60 seconds apart.
NextConc ==
    \/ \E req \in Requests : create(req.channel, req.chat_id, req.prompt)
    \/ \E id \in Ids, req \in Requests \cup {EmptyTokenRequest} : start(id, req)
    \/ \E id \in Ids, e \in {EvTool, EvResultErr}, dt \in Deltas :
            on_event(id, e, dt)
    \/ \E id \in Ids : stream_raises(id)
    \/ \E id \in Ids : stream_ends(id)
    \/ \E id \in Ids : post_returns(id)
    \/ \E id \in Ids : cancel(id, FALSE)

SpecConc == Init /\ [][NextConc]_vars

\* the record a run leaves when it executes alone, from what the run has
\* done so far: the status of its finish call (running before it), and
\* the last activity it derived from its events (none: as created)
OwnStatus(id) ==
    IF obs[id].finishes = <<>> THEN "running" ELSE Last(obs[id].finishes)
OwnActivity(id) ==
    IF frame[id].pc = "idle" \/ frame[id].last_activity = Starting
    THEN <<>> ELSE frame[id].last_activity
\* the step is one of the run of id
StepOf(id) == frame'[id] # frame[id]

\* C25: with several runs interleaved on one loop, a step of one run never
\* changes the record of another id, and at every point the status and
\* last_activity of each record are what its own run alone has written:
\* the status of its finish call and the last activity it derived.
C25_RunsDoNotInterfere ==
    /\ [](\A id \in Ids : Exists(id) =>
            /\ status(id) = OwnStatus(id)
            /\ last_activity(id) = OwnActivity(id))
    /\ [][\A id \in Ids : \A j \in Ids \ {id} :
            StepOf(j) => task_dir'[id] = task_dir[id]]_vars

\* two runs are live at the same time, one waiting at a progress post with
\* its record running, the other at its final post with its record error
C25_TwoRunsLive ==
    \E id \in Ids : \E j \in Ids \ {id} :
        /\ frame[id].pc = "post_progress" /\ status(id) = "running"
        /\ last_activity(id) # <<>>
        /\ frame[j].pc = "post_final" /\ status(j) = "error"
        /\ last_activity(j) # last_activity(id)

(* ---------------------------------------------------------------------- *)
\* every message the run of id has published satisfies P
AllMsgs(id, P(_)) == \A i \in 1..Len(published[id]) : P(published[id][i])
Addressed(id, msg) ==
    msg.channel = frame[id].channel /\ msg.chat_id = frame[id].chat_id

\* C26 as stated: every message a run publishes goes to the channel and
\* chat_id given to the run; when reply_to is given (not None) every
\* message has metadata reply_to equal to it, and when it is not given no
\* message has the key.
C26_ReplyToWhenSet ==
    \A id \in Ids :
        AllMsgs(id, LAMBDA msg :
            /\ Addressed(id, msg)
            /\ IF frame[id].reply_to # <<>>
               THEN msg.has_reply_to /\ msg.reply_to = frame[id].reply_to[1]
               ELSE ~msg.has_reply_to)

\* C26 amended: every message a run publishes goes to the channel and
\* chat_id given to the run; when reply_to is a non-empty string every
\* message has metadata reply_to equal to it; when reply_to is None or the
\* empty string no message has the key.
C26_ReplyToWhenNonEmpty ==
    \A id \in Ids :
        AllMsgs(id, LAMBDA msg :
            /\ Addressed(id, msg)
            /\ IF frame[id].reply_to # <<>> /\ frame[id].reply_to[1] # <<>>
               THEN msg.has_reply_to /\ msg.reply_to = frame[id].reply_to[1]
               ELSE ~msg.has_reply_to)

\* a run given a token has published a progress message and a terminal
\* message, while a run given none has published a message too
C26_BothKindsPublished ==
    \E id \in Ids : \E j \in Ids \ {id} :
        /\ frame[id].reply_to = <<<<"msg999">>>>
        /\ Len(published[id]) = 2
        /\ IsProgress(published[id][1]) /\ ~IsProgress(published[id][2])
        /\ frame[j].pc # "idle" /\ frame[j].reply_to = <<>>
        /\ published[j] # <<>>

(* ==================== _event_to_activity on its own =================== *)
\* content blocks an assistant event may hold, at most MaxBlocks of them
MaxBlocks == 2

\* n times the character x
Xs(n) == [i \in 1..n |-> "x"]

\* the input objects of a tool_use block, as their values in order: none,
\* only falsy ones, the command of the tests, falsy ones before an integer
\* and a string, a string of 301 characters
ToolInputs ==
    {<<>>,
     <<JStr(<<>>), JNum(0), JNull>>,
     <<JStr(<<"ls", " ", "/tmp">>)>>,
     <<JNum(0), JNum(5), JStr(<<"zz">>)>>,
     <<JStr(<<>>), JStr(Xs(ToolValLen + 1))>>}

\* the texts of a text block: empty, blanks, a short text in blanks, 100
\* characters, 500 characters in blanks, 501 characters
Texts ==
    {<<>>, <<" ", " ">>, <<" ", "hi", " ">>, Xs(100),
     <<" ">> \o Xs(TextLen) \o <<" ">>, Xs(TextLen + 1)}

LabelBlocks ==
    {NotDictBlock, Block("thinking", FALSE, <<>>, <<>>, <<>>)}
        \cup {Block("tool_use", TRUE, <<"bash">>, inp, <<>>) : inp \in ToolInputs}
        \cup {Block("tool_use", FALSE, <<>>, inp, <<>>) :
                    inp \in {<<>>, <<JStr(<<"ls", " ", "/tmp">>)>>}}
        \cup {Block("text", FALSE, <<>>, <<>>, t) : t \in Texts}

LabelEvents ==
    {Event(type, content, <<>>, FALSE, "") :
        type \in {"assistant", "system"},
        content \in UNION {[1..n -> LabelBlocks] : n \in 0..MaxBlocks}}

InitLabel ==
    /\ task_dir = [id \in Ids |-> NoFile]
    /\ frame = [id \in Ids |-> IdleFrame]
    /\ published = [id \in Ids |-> <<>>]
    /\ stale = <<>>
    /\ obs = [id \in Ids |-> NoObs]
    /\ called = NoCall
    /\ gen = NoGen
    /\ proc = NoProc
    /\ stderr_task = NoTask
    /\ clock = 0
    /\ yielded = <<>>
    /\ \E e \in LabelEvents : labelled = [NoLabelled EXCEPT !.event = e]

\* the call _event_to_activity(event); <<>> stands for None
derive ==
    /\ ~labelled.done
    /\ labelled' = [labelled EXCEPT !.done = TRUE,
                                    !.label = event_to_activity(labelled.event)]
    /\ UNCHANGED <<task_dir, frame, published, stale, obs, called>>
    /\ UNCHANGED stream_vars

NextLabel == derive

SpecLabel == InitLabel /\ [][NextLabel]_vars

(* ---------------------------------------------------------------------- *)
\* the text without its leading and trailing blanks
Trimmed(t) ==
    LET nb == {i \in 1..Len(t) : t[i] # " "}
    IN  IF nb = {} THEN <<>>
        ELSE SubSeq(t, CHOOSE i \in nb : \A j \in nb : i <= j,
                       CHOOSE i \in nb : \A j \in nb : i >= j)
\* the block gives a label: a tool_use block, or a text block whose text is
\* not empty after trimming
IsLabelled(b) ==
    b.isdict /\ (b.type = "tool_use" \/ (b.type = "text" /\ Trimmed(b.text) # <<>>))
\* the position of the first block that gives a label, 0 when none does
FirstLabelled(blocks) ==
    LET I == {i \in 1..Len(blocks) : IsLabelled(blocks[i])}
    IN  IF I = {} THEN 0 ELSE CHOOSE i \in I : \A j \in I : i <= j
\* _event_to_activity returned for an assistant event whose first labelled
\* block is of the type given
LabelledBy(type) ==
    /\ labelled.done /\ labelled.event.type = "assistant"
    /\ FirstLabelled(labelled.event.content) > 0
    /\ labelled.event.content[FirstLabelled(labelled.event.content)].type = type
TheBlock == labelled.event.content[FirstLabelled(labelled.event.content)]
BashLsTmp ==
    Event("assistant",
          <<Block("tool_use", TRUE, <<"bash">>, <<JStr(<<"ls", " ", "/tmp">>)>>, <<>>)>>,
          <<>>, FALSE, "")

\* C27: when the first labelled block is a tool_use block the label is
\* name("v"), v being the first truthy input value as a string cut to 300
\* characters, and the bare name when no input value is truthy; for tool
\* bash with input {command: 'ls /tmp'} it is bash("ls /tmp").
C27_ToolLabel ==
    /\ LabelledBy("tool_use") =>
          LET name == IF TheBlock.has_name THEN TheBlock.name ELSE <<"tool">>
              tv == SelectSeq(TheBlock.input, is_truthy)
          IN  labelled.label =
                IF tv = <<>> THEN name
                ELSE name \o <<"(\"">>
                       \o SubSeq(str(tv[1]), 1,
                                 IF Len(str(tv[1])) > 300 THEN 300 ELSE Len(str(tv[1])))
                       \o <<"\")">>
    /\ (labelled.done /\ labelled.event = BashLsTmp) =>
          labelled.label = <<"bash", "(\"", "ls", " ", "/tmp", "\")">>

\* the label of a tool_use block that comes second, after a block without
\* label, and whose first truthy value, after a falsy one, was cut
C27_LongValueCut ==
    /\ LabelledBy("tool_use")
    /\ FirstLabelled(labelled.event.content) = 2
    /\ Len(TheBlock.input) = 2 /\ ~is_truthy(TheBlock.input[1])
    /\ Len(labelled.label) = ToolValLen + 3

InLoop == Launched /\ gen.pc \in {"read", "yielded"}

\* C30: for the whole lifetime of the call the drain task keeps reading
\* stderr, so that the process never waits inside a write to a full stderr
\* pipe that nobody reads while the client waits for a stdout line.
C30_StderrDrained ==
    /\ InLoop /\ proc.state = "running" => stderr_task.state = "pending"
    /\ ~(Blocked /\ stderr_task.state # "pending" /\ gen.pc = "read")

(* ---------------------------------------------------------------------- *)
\* C31: whatever the subprocess does, and with a consumer that keeps
\* requesting events, the event sequence eventually completes, given that
\* a killed process exits and its stderr reaches end of file.
C31_SequenceCompletes == <>Finished

(* ---------------------------------------------------------------------- *)
\* C32: no stdout line aborts the stream by its content: after each line
\* read the client has either yielded it as an event or skipped it and
\* gone on reading (unless the deadline has passed); it never raises
\* because of the line.
C32_NoLineAborts ==
    [][ReadsLine =>
          /\ gen'.pending # "raise"
          /\ \/ yielded' = Append(yielded, event_of(Last(gen'.lines)))
             \/ yielded' = yielded /\ (gen'.pc = "read" \/ gen'.timed_out)]_vars

(* ------------------------- the interval timer ------------------------- *)
\* how much later an event comes: at once, just under, at and just over
\* the status interval
TickDeltas == {0, STATUS_INTERVAL_S - 1, STATUS_INTERVAL_S, STATUS_INTERVAL_S + 1}

\* one run at a time over events that come at these distances
NextTick ==
    \/ \E req \in Requests : create(req.channel, req.chat_id, req.prompt)
    \/ \E id \in Ids, req \in Requests : solo(id) /\ start(id, req)
    \/ \E id \in Ids, e \in {EvTool, EvSystem, EvResultOk}, dt \in TickDeltas :
            on_event(id, e, dt)
    \/ \E id \in Ids : stream_ends(id)
    \/ \E id \in Ids : post_returns(id)
    \/ \E id \in Ids : post_raises(id)
    \/ \E id \in Ids, d \in BOOLEAN : cancel(id, d)
    \/ \E id \in Ids : forget(id)

SpecTick == Init /\ [][NextTick]_vars

\* the step is the loop body run on one event of run id
EventStep(id) == obs'[id].nevents = obs[id].nevents + 1
\* the step is a progress post of run id that returns
ProgressPosted(id) ==
    frame[id].pc = "post_progress" /\ frame'[id].pc = "next_event"
\* minutes and seconds as the progress message shows them
MinSec(n) == <<ToString(n \div 60), "m ", ToString(n % 60), "s">>

\* C33: at each event received the run goes on to publish a progress
\* message if and only if at least 60 seconds have passed between the
\* event before which the previous progress message was posted (or the
\* start) and this event; the message published shows the time elapsed
\* since the start and the last known activity, and the timer is then set
\* to the time the event was received. Progress messages are published at
\* no other point.
C33_ProgressWhenDue ==
    [][\A id \in Ids :
        /\ EventStep(id) =>
              (frame'[id].pc = "post_progress"
                  <=> frame'[id].now - frame[id].last_status_at >= 60)
        /\ ProgressPosted(id) =>
              /\ Publishes(id)
              /\ IsProgress(NewMsg(id))
              /\ frame[id].now - frame[id].started >= 60 =>
                    Contains(NewMsg(id).content,
                             <<" (">> \o MinSec(frame[id].now - frame[id].started)
                                 \o <<" elapsed)">>)
              /\ Contains(NewMsg(id).content, <<"'">> \o frame[id].last_activity \o <<"'">>)
              /\ frame'[id].last_status_at = frame[id].now
        /\ Publishes(id) /\ IsProgress(NewMsg(id)) =>
              /\ frame[id].pc = "post_progress"
              /\ ~EventStep(id)
        /\ frame'[id].last_status_at # frame[id].last_status_at =>
              \/ ProgressPosted(id)
              \/ frame[id].pc \in {"idle"} \cup Ended]_vars

\* a run whose first event came under a minute after the start and gave
\* no message, and whose second event, under a minute later, gave one:
\* 1m 58s after the start
C33_SecondEventDue ==
    \E id \in Ids :
        /\ obs[id].nevents = 2
        /\ frame[id].now - frame[id].started = 118
        /\ Len(published[id]) = 1
        /\ IsProgress(published[id][1])
        /\ Contains(published[id][1].content, <<"1", "m ", "58", "s">>)
        /\ frame[id].last_status_at = frame[id].now

(* ---------------------------------------------------------------------- *)
\* the step holds a finish call of run id
FinishStep(id) == Len(obs'[id].finishes) = Len(obs[id].finishes) + 1

\* C34: progress handling never changes a record's status: the
\* update_activity call of an event changes nothing but the last_activity
\* of the run's own record (id, channel, chat_id, prompt_preview,
\* started_at and status stay), a finish call changes nothing but its
\* status, and a progress post writes nothing to the store; the status of
\* a record changes in a finish call only.
C34_ProgressKeepsStatus ==
    [][\A id \in Ids :
        /\ EventStep(id) =>
              task_dir' = [task_dir EXCEPT
                              ![id].data.last_activity = task_dir'[id].data.last_activity]
        /\ FinishStep(id) =>
              task_dir' = [task_dir EXCEPT ![id].data.status = task_dir'[id].data.status]
        /\ ProgressPosted(id) => task_dir' = task_dir
        /\ (Exists(id) /\ status(id)' # status(id)) => FinishStep(id)]_vars

\* a run has published a progress message after a tool call: the record
\* shows the call and is running as before, and what create wrote is there
C34_ProgressedStillRunning ==
    \E id \in Ids :
        /\ frame[id].pc = "next_event"
        /\ published[id] # <<>> /\ IsProgress(LastMsg(id))
        /\ task_dir[id].data =
              [TaskRecord(id, frame[id].channel, frame[id].chat_id,
                          task_dir[id].data.prompt_preview,
                          task_dir[id].data.started_at)
                  EXCEPT !.last_activity = <<"bash", "(\"", "ls", "\")">>]
        /\ task_dir[id].data.prompt_preview # <<>>

(* ------------------------- the result events -------------------------- *)
\* what a result event may hold under is_error: no key, false, true, the
\* number 0, a non-empty string
ErrorValues == {JNull, JBool(FALSE), JBool(TRUE), JNum(0), JStr(<<"false">>)}
\* a result event as the loop body reads it: event.get("result") or "",
\* bool(event.get("is_error")), event.get("subtype")
ResultOf(text, v, subtype) == Event("result", <<>>, text, is_truthy(v), subtype)
ResultEvents ==
    {ResultOf(text, v, subtype) :
        text \in {<<>>, <<"X">>}, v \in ErrorValues,
        subtype \in {"", "success", "error_during_execution"}}
      \cup {EvResultOk, TimedOutEvent(DEFAULT_STREAM_TIMEOUT)}

\* the stream of the one run yields an event at once: on_event, with the
\* event kept in yielded
recv(id, event) ==
    /\ frame[id].pc = "next_event"
    /\ obs[id].nevents < MaxEvents
    /\ loop_body(id, event, frame[id].now)
    /\ yielded' = Append(yielded, event)
    /\ UNCHANGED <<published, stale, called, gen, proc, stderr_task, clock, labelled>>

\* one run over a stream of tool and result events
NextResults ==
    \/ \E req \in Requests : create(req.channel, req.chat_id, req.prompt)
    \/ \E id \in Ids, req \in Requests : yielded = <<>> /\ solo(id) /\ start(id, req)
    \/ \E id \in Ids, e \in ResultEvents \cup {EvTool} : recv(id, e)
    \/ \E id \in Ids : stream_ends(id)
    \/ \E id \in Ids : post_returns(id)

SpecResults == Init /\ [][NextResults]_vars

\* the result events the stream has yielded, in order
Results == SelectSeq(yielded, LAMBDA e : e.type = "result")
\* the run that received them
Received(id) == obs[id].nevents = Len(yielded) /\ yielded # <<>>

\* C35: when a stream with exactly one result event ends normally, the
\* record's final status is error if and only if that event's is_error is
\* truthy or its subtype is error_during_execution, and done otherwise.
C35_StatusOfOneResult ==
    \A id \in Ids :
        (NormalEnd(id) /\ Received(id) /\ Len(Results) = 1) =>
            status(id) = IF Results[1].is_error
                            \/ Results[1].subtype = "error_during_execution"
                         THEN "error" ELSE "done"

\* a run over a tool call and one result event with is_error "false", a
\* non-empty string, has returned: the record says error
C35_TruthyStringIsError ==
    \E id \in Ids :
        /\ NormalEnd(id) /\ Received(id)
        /\ yielded = <<EvTool, ResultOf(<<"X">>, JStr(<<"false">>), "success")>>
        /\ status(id) = "error"

(* ---------------------------------------------------------------------- *)
\* the lines of a sequence of stderr lines that are not empty once their
\* trailing blanks are removed, without those blanks, in order
RECURSIVE Kept(_)
Kept(lines) ==
    IF lines = <<>> THEN <<>>
    ELSE IF RStrip(Head(lines)) # <<>>
    THEN <<RStrip(Head(lines))>> \o Kept(Tail(lines))
    ELSE Kept(Tail(lines))

\* C36: the stderr text of the synthetic exit event is complete: when the
\* event is built the drain task has finished and nothing is left in the
\* pipe, and the text is made of every non-empty line the process wrote to
\* stderr, in the order written (or names the exit code when there was
\* none).
C36_StderrComplete ==
    \A i \in 1..Len(yielded) :
        IsExitEvent(yielded[i]) =>
            /\ stderr_task.state = "done"
            /\ proc.errpipe = <<>>
            /\ stderr_task.lines = Kept(proc.errout)
            /\ \A k \in 1..Len(Kept(proc.errout)) :
                    Contains(yielded[i].result, Strip(Kept(proc.errout)[k]))
            /\ yielded[i].result =
                  <<"Error: claude CLI exited with code ", ToString(proc.returncode), ": ">>
                    \o (IF Kept(proc.errout) # <<>>
                        THEN Strip(JoinLines(Kept(proc.errout)))
                        ELSE <<"claude exited with code ", ToString(proc.returncode)>>)

\* a process wrote three lines to stderr, the second of blanks only, into a
\* pipe that takes one line at a time, and exited with code 3: the exit
\* event holds the two others
C36_TwoLinesReported ==
    /\ gen.pc = "done"
    /\ proc.errout = << <<"boom">>, <<" ">>, <<" ", "warn", " ">> >>
    /\ yielded = <<Event("result", <<>>,
                         <<"Error: claude CLI exited with code ", "3", ": ",
                           "boom", "\n", " ", "warn">>, TRUE, "")>>

(* ---------------------------------------------------------------------- *)
\* C37: a run that ends on the normal-exhaustion path with final status
\* error has a final message that starts with the error marker; the
\* completion notice is never the final message of a run whose final
\* status is error.
C37_ErrorIsMarked ==
    \A id \in Ids :
        (NormalEnd(id) /\ status(id) = "error") =>
            /\ IsPrefix(ErrMark, LastMsg(id).content)
            /\ LastMsg(id).content # Completed

(* ---------------------------------------------------------------------- *)
\* C38: when the stream yields more than one result event, the final
\* status and the final message are those of the last result event alone:
\* the text and the error flag of the earlier ones have no effect.
C38_LastResultCounts ==
    \A id \in Ids :
        (NormalEnd(id) /\ Received(id) /\ Len(Results) > 1) =>
            LET r == Last(Results)
                failed == r.is_error \/ r.subtype = "error_during_execution"
            IN  /\ status(id) = IF failed THEN "error" ELSE "done"
                /\ LastMsg(id).content =
                      IF r.result = <<>> THEN Completed
                      ELSE IF failed THEN ErrMark \o <<" ">> \o r.result
                      ELSE r.result

\* a real result followed by the timed-out event: the run ends as failed,
\* with the timeout text
C38_ResultThenTimedOut ==
    \E id \in Ids :
        /\ NormalEnd(id) /\ Received(id)
        /\ yielded = <<EvResultOk, TimedOutEvent(DEFAULT_STREAM_TIMEOUT)>>
        /\ status(id) = "error"
        /\ LastMsg(id).content =
              ErrMark \o <<" ", "Error: claude CLI ", "timed out", " after ", "900", "s.">>

(* ---------------------------------------------------------------------- *)
\* C39: one call yields at most one synthetic event, the timed-out event or
\* the exit event and never both; a synthetic event is the last event of
\* the sequence, and it is yielded only after the process was killed and
\* waited for.
C39_OneSyntheticLast ==
    /\ Len(SelectSeq(yielded, IsSynthetic)) <= 1
    /\ \A i \in 1..Len(yielded) :
          IsSynthetic(yielded[i]) =>
              /\ i = Len(yielded)
              /\ proc.killed /\ proc.waited /\ proc.state = "exited"
              /\ gen.pc \in {"yielded_final", "done", "closed"}

\* a result event, and then, requested after the deadline, the timed-out
\* event, from a process that was killed with SIGKILL
C39_TimedOutAfterResult ==
    /\ gen.pc = "done"
    /\ yielded = <<EvResultOk, TimedOutEvent(gen.stream_timeout)>>
    /\ proc.sigkilled /\ proc.returncode = SIGKILL_RC

(* ---------------------------------------------------------------------- *)
\* the progress messages a run has published, in order
ProgressMsgs(id) == SelectSeq(published[id], IsProgress)
\* the number a decimal numeral stands for
NumberOf(numeral) == CHOOSE n \in 0..(MaxNow + 1) : ToString(n) = numeral
\* the message shows the elapsed time as minutes and seconds
InMinutesForm(msg) ==
    /\ Len(msg.content) >= 9
    /\ msg.content[4] = " (" /\ msg.content[6] = "m "
    /\ msg.content[8] = "s" /\ msg.content[9] = " elapsed)"
\* the seconds between the start and the event the message was posted for,
\* read from a message in that form
ElapsedIn(msg) == 60 * NumberOf(msg.content[5]) + NumberOf(msg.content[7])

\* C40: every progress message shows an elapsed time of at least 60
\* seconds, in the minutes-and-seconds form (the seconds-only form is
\* never produced), and the events of two consecutive progress messages
\* of a run were received at least 60 seconds apart.
C40_MinutesApart ==
    \A id \in Ids :
        \A k \in 1..Len(ProgressMsgs(id)) :
            /\ InMinutesForm(ProgressMsgs(id)[k])
            /\ ElapsedIn(ProgressMsgs(id)[k]) >= 60
            /\ k > 1 =>
                  ElapsedIn(ProgressMsgs(id)[k]) - ElapsedIn(ProgressMsgs(id)[k - 1]) >= 60

\* a run has published two progress messages, one and two minutes after
\* its start
C40_TwoProgressMessages ==
    \E id \in Ids :
        /\ Len(ProgressMsgs(id)) = 2
        /\ Contains(ProgressMsgs(id)[1].content, <<" (", "1", "m ", "0", "s", " elapsed)">>)
        /\ Contains(ProgressMsgs(id)[2].content, <<" (", "2", "m ", "0", "s", " elapsed)">>)

====
